---- MODULE Spec2Model ----
(***************************************************************************)
(* URL recorder: the background service worker (background.js) that        *)
(* filters submitted URLs against the user's regex patterns, deduplicates  *)
(* them and mirrors chrome.storage.local in two in-memory caches, and the  *)
(* content script (content.js) that collects the URLs of a page.           *)
(*                                                                         *)
(* Strings are modelled as sequences of symbols (a symbol stands for one   *)
(* character, or for a fixed run of characters such as "https://").        *)
(* JavaScript runs each handler to completion, so every handler is one     *)
(* action.  chrome.storage.local is asynchronous: a set() is queued        *)
(* (writeQueue) and applied later, in the order issued (WriteComplete).    *)
(* What the store sends back to the worker - the result of a get, the      *)
(* onChanged notification of a set, then the callback of that set - is     *)
(* delivered in the order sent (eventQueue).  Navigation events and        *)
(* messages from the popup and the content scripts arrive at any time.     *)
(***************************************************************************)
EXTENDS Integers, Sequences, FiniteSets, TLC

\* ------------------------------------------------------------------ bounds
MaxOps == 3        \* external requests (navigations, messages) per run

\* content.js: the quiescence window of the debounce, in milliseconds
DEBOUNCE_DELAY == 500

Range(s) == {s[i] : i \in DOMAIN s}

\* ----------------------------------------------------------------- strings
EmptyString == << >>

\* candidate URLs
UA1 == <<"https://", "a", "?", "x", "=", "1">>
UA2 == <<"https://", "a", "?", "x", "=", "2">>
UB == <<"http://", "B">>
UFtp == <<"ftp://", "a">>

Urls == {UA1, UA2, UB}

\* ------------------------------------------------------------ content script
\* strings found in the attributes of a page: the relative reference "?x=2"
\* and an absolute URL whose host holds a space
RawQuery2 == <<"?", "x", "=", "2">>
RawBad == <<"https://", " ", "a">>

\* document.baseURI of the page scanned
BaseUri == UA1

\* the attribute values a scan meets, in document order: two URLs in either
\* order; an empty attribute, an invalid URL, a URL of another host, a
\* relative reference and the URL it resolves to; an invalid URL alone
PageScans ==
  { <<UA1, UA2>>, <<UA2, UA1>>, <<EmptyString, RawBad, UB, RawQuery2, UA2>>,
    <<RawBad>> }

UrlSchemes == {"http://", "https://", "ftp://"}

\* url up to its query
StripQuery(url) ==
  SubSeq(url, 1,
         (CHOOSE i \in 1..(Len(url) + 1) :
            /\ i = Len(url) + 1 \/ url[i] = "?"
            /\ \A j \in 1..(i - 1) : url[j] # "?") - 1)

\* faulty variant: a string that new URL() rejects is passed on as it is
ResolveHrefUnchecked(raw) ==
  IF Len(raw) >= 1 /\ raw[1] \in UrlSchemes THEN <<raw>>
  ELSE IF raw = EmptyString THEN <<BaseUri>>
  ELSE IF raw[1] = "?" THEN <<StripQuery(BaseUri) \o raw>>
  ELSE <<SubSeq(BaseUri, 1, 2) \o raw>>

\* new URL(urlString, document.baseURI).href inside try/catch: << >> when the
\* constructor throws, else the one absolute URL
ResolveHref(raw) ==
  IF Len(raw) >= 1 /\ raw[1] \in UrlSchemes
  THEN IF Len(raw) >= 2 /\ raw[2] # " " THEN <<raw>> ELSE << >>
  ELSE IF raw = EmptyString THEN <<BaseUri>>
  ELSE IF raw[1] = "?" THEN <<StripQuery(BaseUri) \o raw>>
  ELSE <<SubSeq(BaseUri, 1, 2) \o raw>>

\* extractUrlsFromNode: every non-empty attribute value is resolved and
\* added to the Set foundUrls (a Set keeps the first insertion of a value);
\* the result is Array.from(foundUrls)
RECURSIVE processElements(_, _, _)
processElements(raws, i, foundUrls) ==
  IF i > Len(raws) THEN foundUrls
  ELSE LET urlString == raws[i]
           url == IF urlString = EmptyString THEN << >>
                  ELSE ResolveHref(urlString)
       IN processElements(raws, i + 1,
            IF url = << >> \/ (\E k \in DOMAIN foundUrls : foundUrls[k] = url[1])
            THEN foundUrls
            ELSE Append(foundUrls, url[1]))

extractUrlsFromNode(raws) == processElements(raws, 1, << >>)

\* request.urls of the foundUrlsFromContent messages a content script sends
Batches == {extractUrlsFromNode(raws) : raws \in PageScans} \ {<< >>}
BatchUrls == UNION {Range(urls) : urls \in Batches}

\* regex pattern strings
PatA == <<"a">>
PatB == <<"b">>
PatBad == <<"(", "b">>
PatGroup == <<"(", "a", ")", ".">>

\* Array.prototype.includes
includes(list, x) == \E i \in DOMAIN list : list[i] = x

\* ------------------------------------------------------- regular expressions
\* new RegExp(p, "i") over the subset the model's patterns are written in:
\* literal symbols, "." (any one symbol) and "(" ... ")" groups.

\* canonical case of a symbol under the "i" flag
Fold(c) == IF c = "A" THEN "a" ELSE IF c = "B" THEN "b" ELSE c

\* the nesting depth at the end of p, or -1 once a ")" closes nothing
RECURSIVE ParenScan(_, _, _)
ParenScan(p, i, depth) ==
  IF depth < 0 THEN -1
  ELSE IF i > Len(p) THEN depth
  ELSE IF p[i] = "(" THEN ParenScan(p, i + 1, depth + 1)
  ELSE IF p[i] = ")" THEN ParenScan(p, i + 1, depth - 1)
  ELSE ParenScan(p, i + 1, depth)

\* new RegExp(p, "i") does not throw a SyntaxError
Compiles(p) == ParenScan(p, 1, 0) = 0

IsParen(c) == c \in {"(", ")"}

\* regex.test(url) for a pattern that compiled: an unanchored search for the
\* pattern's atoms (a group without alternation or quantifier is the
\* concatenation of its atoms)
RegexTest(p, url) ==
  LET atoms == SelectSeq(p, LAMBDA c : ~IsParen(c))
      n == Len(atoms)
  IN \E k \in 0..(Len(url) - n) :
       \A j \in 1..n : atoms[j] = "." \/ Fold(atoms[j]) = Fold(url[k + j])

\* the body of the for loop of matchesAnyPattern from pattern i on: a pattern
\* whose compilation throws is caught and skipped
RECURSIVE MatchFrom(_, _, _)
MatchFrom(url, patterns, i) ==
  IF i > Len(patterns) THEN FALSE
  ELSE IF ~Compiles(patterns[i]) THEN MatchFrom(url, patterns, i + 1)
  ELSE IF RegexTest(patterns[i], url) THEN TRUE
  ELSE MatchFrom(url, patterns, i + 1)

\* faulty variant: the SyntaxError of an invalid pattern ends the loop
RECURSIVE MatchFromAbort(_, _, _)
MatchFromAbort(url, patterns, i) ==
  IF i > Len(patterns) THEN FALSE
  ELSE IF ~Compiles(patterns[i]) THEN FALSE
  ELSE IF RegexTest(patterns[i], url) THEN TRUE
  ELSE MatchFromAbort(url, patterns, i + 1)

\* faulty variant: only the first pattern of the list is tried
matchesAnyPatternFirst(url, patterns) ==
  IF url = EmptyString \/ Len(patterns) = 0 THEN FALSE
  ELSE Compiles(patterns[1]) /\ RegexTest(patterns[1], url)

matchesAnyPatternAbort(url, patterns) ==
  IF url = EmptyString \/ Len(patterns) = 0 THEN FALSE
  ELSE MatchFromAbort(url, patterns, 1)

matchesAnyPattern(url, patterns) ==
  IF url = EmptyString \/ Len(patterns) = 0 THEN FALSE
  ELSE MatchFrom(url, patterns, 1)

\* ------------------------------------------------------------- normalization
\* URL simplification: the background handlers of it are not in the source
\* tree (the popup calls them); modelled from the specification, 4.2 and 4.3.

Schemes == {"https://", "http://", "ftp://"}

\* position of the first c in s, 0 when there is none
FirstIndex(s, c) ==
  IF \E i \in DOMAIN s : s[i] = c
  THEN CHOOSE i \in DOMAIN s : s[i] = c /\ \A j \in 1..(i - 1) : s[j] # c
  ELSE 0

\* s split at every "&"
RECURSIVE SplitParams(_)
SplitParams(s) ==
  LET k == FirstIndex(s, "&")
  IN IF k = 0 THEN <<s>>
     ELSE <<SubSeq(s, 1, k - 1)>> \o SplitParams(SubSeq(s, k + 1, Len(s)))

\* the parameters joined by "&"
RECURSIVE JoinParams(_)
JoinParams(ps) ==
  IF Len(ps) = 0 THEN << >>
  ELSE IF Len(ps) = 1 THEN ps[1]
  ELSE ps[1] \o <<"&">> \o JoinParams(Tail(ps))

\* the key of one "key=value" parameter
ParamKey(param) ==
  LET k == FirstIndex(param, "=")
  IN IF k = 0 THEN param ELSE SubSeq(param, 1, k - 1)

\* the string parses as an absolute URL
ParsesAsUrl(url) == Len(url) >= 2 /\ url[1] \in Schemes

normalizeUrl(url, ignoredParams) ==
  IF Len(ignoredParams) = 0 THEN url
  ELSE IF ~ParsesAsUrl(url) THEN url
  ELSE
    LET q == FirstIndex(url, "?")
    IN IF q = 0 \/ q = Len(url) THEN url
       ELSE
         LET params == SplitParams(SubSeq(url, q + 1, Len(url)))
             kept == SelectSeq(params,
                       LAMBDA prm : ~includes(ignoredParams, ParamKey(prm)))
         IN IF Len(kept) = 0 THEN SubSeq(url, 1, q - 1)
            ELSE SubSeq(url, 1, q) \o JoinParams(kept)

\* faulty variant: the comparison ignores the normalization configuration
ContainsRaw(list, url, enabled, ignoredParams) == includes(list, url)

\* RecordStore.contains under the active normalization configuration; with
\* simplification off it is cachedRecordedUrls.includes(url)
Contains(list, url, enabled, ignoredParams) ==
  IF enabled
  THEN \E i \in DOMAIN list :
         normalizeUrl(list[i], ignoredParams) = normalizeUrl(url, ignoredParams)
  ELSE includes(list, url)

\* --------------------------------------------------------------------- state
VARIABLES
  cachedRecordedUrls,      \* background.js: in-memory cache of recorded URLs
  cachedTargetPatterns,    \* background.js: in-memory cache of the patterns
  cachedSimplification,    \* [enabled, params]: cache of the normalization config
  badgeText,               \* <<n>> once setBadgeText showed n, << >> before
  storage,                 \* chrome.storage.local: a function on the keys present
  writeQueue,              \* storage.set calls issued and not yet applied
  eventQueue,              \* get results, onChanged notifications and set
                           \* callbacks sent to the worker, not yet delivered
  initState,               \* initializeCaches: "reading", "loaded" or "done"
  nOps,                    \* external requests handled so far
  lastOp,                  \* history: the last request handled and its outcome
  quietSinceClear,         \* history: a clear was answered, no submit since
  staleUrls,               \* history: recorded before a clear request and not
                           \* accepted again since
  seenBefore,              \* history: the pairs <<u, v>> with u listed before v
                           \* in the cache at some time since initialization
                           \* finished and the cache was last empty
  answeredPatterns,        \* history: << >>, or <<p>> when the last answered
                           \* setTargetPatterns request was answered with p
  DEBUG_MODE,              \* background.js: the debugging flag
  installState,            \* the onInstalled listener: "none" while the event
                           \* has not fired, then "reading", "loaded", "done"
  storageReading,          \* the chrome.storage.local of the storage-read
                           \* background.js when it is run side by side with
                           \* the cached one on the same operations
  urlsToProcess,           \* content.js: the Set of URLs collected, in
                           \* insertion order
  debounceTimer,           \* content.js: the id setTimeout returned last, 0
                           \* while undefined
  timers,                  \* the timers of the page that have not run yet:
                           \* [id, left], left the milliseconds until due
  messages,                \* runtime messages sent by the content script and
                           \* not yet handled by the worker
  sinceArrival,            \* history: milliseconds since debouncedSendUrls
                           \* was last called, up to DEBOUNCE_DELAY
  unsent                   \* history: the URLs added to urlsToProcess and in
                           \* no message since

\* the state of the service worker and of chrome.storage.local
workerVars ==
  <<cachedRecordedUrls, cachedTargetPatterns, cachedSimplification, badgeText,
    storage, writeQueue, eventQueue, initState, nOps, lastOp, quietSinceClear,
    staleUrls, seenBefore, answeredPatterns, DEBUG_MODE, installState,
    storageReading>>

\* the state of the content script of one page
contentVars ==
  <<urlsToProcess, debounceTimer, timers, messages, sinceArrival, unsent>>

\* what a handler of the worker that does not touch the debugging flag
\* leaves alone besides
otherVars == <<contentVars, installState, storageReading>>

vars == <<workerVars, contentVars>>

NoKeys == [k \in {} |-> << >>]

\* result.key || fallback
ValueOr(store, key, fallback) ==
  IF key \in DOMAIN store THEN store[key] ELSE fallback

\* what chrome.storage.local holds when the service worker starts: nothing
\* (first install) or the state a previous session left
InitialStores ==
  { NoKeys,
    [recordedUrls |-> <<UB>>, targetPatterns |-> <<PatGroup, PatB>>] }

\* the normalization configuration before any is set
NoSimplification == [enabled |-> FALSE, params |-> << >>]

\* request.patterns that is not an array
NotAnArray == [isArray |-> FALSE, entries |-> << >>]

\* success: the success field of the response sent; lastError: whether
\* chrome.runtime.lastError was set while the callback that answered ran
NoOp ==
  [kind |-> "none", urls |-> << >>, patterns |-> << >>, results |-> << >>,
   written |-> << >>, simplification |-> NoSimplification,
   request |-> NotAnArray, success |-> FALSE, lastError |-> FALSE,
   frameId |-> 0]

\* the pairs <<u, v>> with u before v in list
OrderedPairs(list) ==
  UNION {{<<list[i], list[j]>> : j \in (i + 1)..Len(list)} : i \in DOMAIN list}

\* seenBefore after a step that leaves the cache as list
Seen(list, init) ==
  IF Len(list) = 0 \/ init # "done" THEN {}
  ELSE seenBefore \cup OrderedPairs(list)

InitWith(stores) ==
  /\ cachedRecordedUrls = << >>
  /\ cachedTargetPatterns = << >>
  /\ cachedSimplification = NoSimplification
  /\ badgeText = << >>
  /\ storage \in stores
  /\ writeQueue = << >>
  /\ eventQueue = << >>
  /\ initState = "reading"
  /\ nOps = 0
  /\ lastOp = NoOp
  /\ quietSinceClear = FALSE
  /\ staleUrls = {}
  /\ seenBefore = {}
  /\ answeredPatterns = << >>
  /\ DEBUG_MODE = FALSE
  /\ installState = "none"
  /\ storageReading = storage
  /\ urlsToProcess = << >>
  /\ debounceTimer = 0
  /\ timers = {}
  /\ messages = << >>
  /\ sinceArrival = 0
  /\ unsent = {}

Init == InitWith(InitialStores)

\* ---------------------------------------------------------- addUrlToStorage
\* A handler runs to completion; st carries what it has done so far: the
\* cache, the storage.set calls issued and the outcome of each submit.

SetCall(items, cb) == [items |-> items, cb |-> cb]
\* the callback given to a set call: which handler waits for it, and the
\* patterns its response carries (settings: the normalization settings the
\* answered request asked for)
SetCallbackOf(kind, patterns) ==
  [kind |-> kind, patterns |-> patterns, settings |-> NoSimplification]
NoCallback == SetCallbackOf("none", << >>)

\* faulty variant: the includes() test is dropped
addUrlToStorageNoDedup(st, url, patterns, simplification) ==
  IF matchesAnyPattern(url, patterns)
  THEN LET pushed == Append(st.cache, url)
       IN [cache |-> pushed,
           writes |-> Append(st.writes,
                             SetCall([recordedUrls |-> pushed], NoCallback)),
           results |-> Append(st.results, "accepted")]
  ELSE [st EXCEPT !.results = Append(@, "no-pattern-match")]

\* faulty variant: a rejected URL still triggers a storage write of the cache
addUrlToStorageAlwaysWrites(st, url, patterns, simplification) ==
  IF matchesAnyPattern(url, patterns)
     /\ ~Contains(st.cache, url, simplification.enabled, simplification.params)
  THEN LET pushed == Append(st.cache, url)
       IN [cache |-> pushed,
           writes |-> Append(st.writes,
                             SetCall([recordedUrls |-> pushed], NoCallback)),
           results |-> Append(st.results, "accepted")]
  ELSE [st EXCEPT !.writes = Append(@, SetCall([recordedUrls |-> st.cache],
                                               NoCallback)),
                  !.results = Append(@, IF matchesAnyPattern(url, patterns)
                                        THEN "duplicate"
                                        ELSE "no-pattern-match")]

\* faulty variant: the URL is pushed to the cache and never written
addUrlToStorageNoWrite(st, url, patterns, simplification) ==
  IF matchesAnyPattern(url, patterns)
  THEN IF ~Contains(st.cache, url, simplification.enabled, simplification.params)
       THEN [st EXCEPT !.cache = Append(@, url),
                       !.results = Append(@, "accepted")]
       ELSE [st EXCEPT !.results = Append(@, "duplicate")]
  ELSE [st EXCEPT !.results = Append(@, "no-pattern-match")]

\* faulty variant: the new URL is put at the front of the list
addUrlToStorageUnshift(st, url, patterns, simplification) ==
  IF matchesAnyPattern(url, patterns)
  THEN IF ~Contains(st.cache, url, simplification.enabled, simplification.params)
       THEN LET pushed == <<url>> \o st.cache
            IN [cache |-> pushed,
                writes |-> Append(st.writes,
                                  SetCall([recordedUrls |-> pushed], NoCallback)),
                results |-> Append(st.results, "accepted")]
       ELSE [st EXCEPT !.results = Append(@, "duplicate")]
  ELSE [st EXCEPT !.results = Append(@, "no-pattern-match")]

\* faulty variant: the compiled regexes outlive the call and carry the g
\* flag, so a test of the string that the call before matched resumes at
\* lastIndex and fails
addUrlToStorageStickyRegex(st, url, patterns, simplification) ==
  IF matchesAnyPattern(url, patterns)
     /\ ~(\E i \in DOMAIN lastOp.results :
            lastOp.urls[i] = url /\ lastOp.results[i] # "no-pattern-match")
  THEN IF ~Contains(st.cache, url, simplification.enabled, simplification.params)
       THEN LET pushed == Append(st.cache, url)
            IN [cache |-> pushed,
                writes |-> Append(st.writes,
                                  SetCall([recordedUrls |-> pushed], NoCallback)),
                results |-> Append(st.results, "accepted")]
       ELSE [st EXCEPT !.results = Append(@, "duplicate")]
  ELSE [st EXCEPT !.results = Append(@, "no-pattern-match")]

\* faulty variant: the URL is recorded without being matched
addUrlToStorageUnfiltered(st, url, patterns, simplification) ==
  IF ~Contains(st.cache, url, simplification.enabled, simplification.params)
  THEN LET pushed == Append(st.cache, url)
       IN [cache |-> pushed,
           writes |-> Append(st.writes,
                             SetCall([recordedUrls |-> pushed], NoCallback)),
           results |-> Append(st.results, "accepted")]
  ELSE [st EXCEPT !.results = Append(@, "duplicate")]

addUrlToStorage(st, url, patterns, simplification) ==
  IF matchesAnyPattern(url, patterns)
  THEN IF ~Contains(st.cache, url, simplification.enabled, simplification.params)
       THEN \* push to the cache, then storage.set of the whole list (the
            \* argument is serialized when set is called)
            LET pushed == Append(st.cache, url)
            IN [cache |-> pushed,
                writes |-> Append(st.writes,
                                  SetCall([recordedUrls |-> pushed], NoCallback)),
                results |-> Append(st.results, "accepted")]
       ELSE [st EXCEPT !.results = Append(@, "duplicate")]
  ELSE [st EXCEPT !.results = Append(@, "no-pattern-match")]

\* faulty variant: the loop ends at the first element that is not recorded
RECURSIVE forEachUrlUntilRejected(_, _, _, _, _)
forEachUrlUntilRejected(st, urls, i, patterns, simplification) ==
  IF i > Len(urls) THEN st
  ELSE LET next == addUrlToStorage(st, urls[i], patterns, simplification)
       IN IF next.results[Len(next.results)] = "accepted"
          THEN forEachUrlUntilRejected(next, urls, i + 1, patterns,
                                       simplification)
          ELSE next

\* request.urls.forEach(url => addUrlToStorage(url)), from element i on
RECURSIVE forEachUrl(_, _, _, _, _)
forEachUrl(st, urls, i, patterns, simplification) ==
  IF i > Len(urls) THEN st
  ELSE forEachUrl(addUrlToStorage(st, urls[i], patterns, simplification),
                  urls, i + 1, patterns, simplification)

\* the URLs a handler accepted
Accepted(urls, results) ==
  {urls[i] : i \in {j \in DOMAIN results : results[j] = "accepted"}}

\* the lists of the storage.set calls a handler issued
WrittenLists(writes) == [i \in DOMAIN writes |-> writes[i].items.recordedUrls]

\* ------------------------------------------------------------------- badge
\* faulty variant: setBadgeText is not called
updateBadgeCountSkipped(list) == badgeText

\* updateBadgeCount(): the badge text is the length of the recorded cache
updateBadgeCount(list) == <<Len(list)>>

\* ------------------------------------------------------------ initialization
\* what chrome.storage.local sends to the worker
GetResult(data) == [kind |-> "getResult", data |-> data, cb |-> NoCallback]
Notification(changes) ==
  [kind |-> "onChanged", data |-> changes, cb |-> NoCallback]
Callback(cb) == [kind |-> "callback", data |-> NoKeys, cb |-> cb]
\* the callback of a set call that failed: chrome.runtime.lastError is set
\* while it runs
LastError == [lastError |-> <<"QUOTA_BYTES">>]
FailedCallback(cb) == [kind |-> "callback", data |-> LastError, cb |-> cb]

\* initializeCaches(), first half: chrome.storage.local serves the get.  It
\* was issued when the script loaded, before any set of this worker.
InitRead ==
  /\ initState = "reading"
  /\ eventQueue' = Append(eventQueue, GetResult(storage))
  /\ initState' = "loaded"
  /\ UNCHANGED <<cachedRecordedUrls, cachedTargetPatterns, cachedSimplification,
                 badgeText, storage, writeQueue, nOps, lastOp, quietSinceClear,
                 staleUrls, seenBefore, answeredPatterns>>
  /\ UNCHANGED <<otherVars, DEBUG_MODE>>

\* faulty variant: the badge is not updated after the caches are loaded
InitDoneNoBadge ==
  /\ Len(eventQueue) > 0
  /\ Head(eventQueue).kind = "getResult"
  /\ LET result == Head(eventQueue).data
     IN /\ cachedTargetPatterns' = ValueOr(result, "targetPatterns", << >>)
        /\ cachedRecordedUrls' = ValueOr(result, "recordedUrls", << >>)
        /\ cachedSimplification' =
             [enabled |-> ValueOr(result, "isUrlSimplificationEnabled", FALSE),
              params |-> ValueOr(result, "ignoredUrlParams", << >>)]
  /\ eventQueue' = Tail(eventQueue)
  /\ initState' = "done"
  /\ seenBefore' = Seen(cachedRecordedUrls', "done")
  /\ UNCHANGED <<badgeText, storage, writeQueue, nOps, lastOp, quietSinceClear,
                 staleUrls, answeredPatterns>>
  /\ DEBUG_MODE' = ValueOr(Head(eventQueue).data, "isDebugMode", FALSE)
  /\ UNCHANGED otherVars

\* initializeCaches(), after the await: the caches take what was read
InitDone ==
  /\ Len(eventQueue) > 0
  /\ Head(eventQueue).kind = "getResult"
  /\ LET result == Head(eventQueue).data
     IN /\ cachedTargetPatterns' = ValueOr(result, "targetPatterns", << >>)
        /\ cachedRecordedUrls' = ValueOr(result, "recordedUrls", << >>)
        /\ cachedSimplification' =
             [enabled |-> ValueOr(result, "isUrlSimplificationEnabled", FALSE),
              params |-> ValueOr(result, "ignoredUrlParams", << >>)]
  /\ badgeText' = updateBadgeCount(cachedRecordedUrls')
  /\ eventQueue' = Tail(eventQueue)
  /\ initState' = "done"
  /\ seenBefore' = Seen(cachedRecordedUrls', "done")
  /\ UNCHANGED <<storage, writeQueue, nOps, lastOp, quietSinceClear, staleUrls,
                 answeredPatterns>>
  /\ DEBUG_MODE' = ValueOr(Head(eventQueue).data, "isDebugMode", FALSE)
  /\ UNCHANGED otherVars

\* ------------------------------------------------------------------ producers
StartsWithHttp(url) == Len(url) >= 1 /\ url[1] \in {"http://", "https://"}

\* faulty variant: with debugging on, the handler logs the URLs and records
\* nothing
SubmittedAsSilentInDebug(op, st) ==
  /\ cachedRecordedUrls' = IF DEBUG_MODE THEN cachedRecordedUrls ELSE st.cache
  /\ writeQueue' = IF DEBUG_MODE THEN writeQueue ELSE writeQueue \o st.writes
  /\ lastOp' = [op EXCEPT !.patterns = cachedTargetPatterns,
                          !.results = st.results,
                          !.written = WrittenLists(st.writes)]
  /\ seenBefore' = Seen(cachedRecordedUrls', initState)
  /\ quietSinceClear' = (quietSinceClear /\ Len(st.results) = 0)
  /\ staleUrls' = staleUrls \ Accepted(op.urls, st.results)
  /\ nOps' = nOps + 1
  /\ UNCHANGED <<cachedTargetPatterns, cachedSimplification, badgeText, storage,
                 eventQueue, initState, answeredPatterns>>

\* what a handler that submitted op.urls leaves behind; op says what the
\* handler received and answered
SubmittedAs(op, st) ==
  /\ cachedRecordedUrls' = st.cache
  /\ writeQueue' = writeQueue \o st.writes
  /\ lastOp' = [op EXCEPT !.patterns = cachedTargetPatterns,
                          !.results = st.results,
                          !.written = WrittenLists(st.writes)]
  /\ seenBefore' = Seen(st.cache, initState)
  /\ quietSinceClear' = (quietSinceClear /\ Len(st.results) = 0)
  /\ staleUrls' = staleUrls \ Accepted(op.urls, st.results)
  /\ nOps' = nOps + 1
  /\ UNCHANGED <<cachedTargetPatterns, cachedSimplification, badgeText, storage,
                 eventQueue, initState, answeredPatterns>>

Fresh == [cache |-> cachedRecordedUrls, writes |-> << >>, results |-> << >>]

\* faulty variant: a listener without the main-frame and scheme conditions
OnBeforeNavigateUnfiltered(frameId, url) ==
  /\ nOps < MaxOps
  /\ SubmittedAs([NoOp EXCEPT !.kind = "navigate", !.urls = <<url>>,
                              !.frameId = frameId],
                 addUrlToStorage(Fresh, url, cachedTargetPatterns,
                                 cachedSimplification))
  /\ UNCHANGED <<otherVars, DEBUG_MODE>>

\* chrome.webNavigation.onBeforeNavigate listener: what it does to the
\* worker and its pending storage calls
OnBeforeNavigateHandler(frameId, url) ==
  /\ nOps < MaxOps
  /\ SubmittedAs([NoOp EXCEPT !.kind = "navigate", !.urls = <<url>>,
                              !.frameId = frameId],
                 IF frameId = 0 /\ StartsWithHttp(url)
                 THEN addUrlToStorage(Fresh, url, cachedTargetPatterns,
                                      cachedSimplification)
                 ELSE Fresh)

\* chrome.webNavigation.onBeforeNavigate listener
OnBeforeNavigate(frameId, url) ==
  /\ OnBeforeNavigateHandler(frameId, url)
  /\ UNCHANGED <<otherVars, DEBUG_MODE>>

\* request.urls of a foundUrlsFromContent message: an array of URLs
UrlsArray(urls) == [isArray |-> TRUE, entries |-> urls]

\* what a foundUrlsFromContent request leaves in lastOp
FoundUrlsOp(req) ==
  [NoOp EXCEPT !.kind = "foundUrlsFromContent",
               !.urls = IF req.isArray THEN req.entries ELSE << >>,
               !.request = req,
               !.success = TRUE]

\* faulty variant: request.urls.length > 0 without Array.isArray
OnFoundUrlsRequestUnguarded(req) ==
  /\ nOps < MaxOps
  /\ SubmittedAs(FoundUrlsOp(req),
                 IF Len(req.entries) > 0
                 THEN forEachUrl(Fresh, req.entries, 1, cachedTargetPatterns,
                                 cachedSimplification)
                 ELSE Fresh)

\* onMessage, action "foundUrlsFromContent", for any request.urls; the
\* response {success: true} is sent in every case
OnFoundUrlsRequest(req) ==
  /\ nOps < MaxOps
  /\ SubmittedAs(FoundUrlsOp(req),
                 IF req.isArray /\ Len(req.entries) > 0
                 THEN forEachUrl(Fresh, req.entries, 1, cachedTargetPatterns,
                                 cachedSimplification)
                 ELSE Fresh)

\* onMessage, action "foundUrlsFromContent", sent by the content script
FoundUrlsFromContent(urls) == OnFoundUrlsRequest(UrlsArray(urls))

\* content script of a page whose quiescence window held one scan: the URLs
\* collected are sent, when there are any, in one foundUrlsFromContent
\* message, which the worker handles
PageScanSent(raws) ==
  LET urlsArray == extractUrlsFromNode(raws)
  IN /\ Len(urlsArray) > 0
     /\ FoundUrlsFromContent(urlsArray)
     /\ UNCHANGED <<otherVars, DEBUG_MODE>>

\* ------------------------------------------------------------ popup requests
\* request.patterns of a setTargetPatterns message: an array of entries, each
\* a string or not, or no array at all
Str(text) == [isString |-> TRUE, text |-> text]
NotAString == [isString |-> FALSE, text |-> << >>]
Blank == <<" ", " ">>

PatternRequests ==
  { NotAnArray,
    [isArray |-> TRUE, entries |-> << >>],
    [isArray |-> TRUE, entries |-> <<Str(PatA)>>],
    [isArray |-> TRUE, entries |-> <<Str(PatBad), Str(Blank), Str(PatA)>>],
    [isArray |-> TRUE, entries |-> <<NotAString, Str(PatB), Str(PatBad)>>] }

\* String.prototype.trim() leaves nothing
TrimsToEmpty(text) == \A i \in DOMAIN text : text[i] = " "

\* faulty variant: a pattern that does not compile is filtered out as well
FilterPatternsValidating(req) ==
  IF req.isArray
  THEN LET kept == SelectSeq(req.entries,
                     LAMBDA e : e.isString /\ ~TrimsToEmpty(e.text)
                                /\ Compiles(e.text))
       IN [i \in DOMAIN kept |-> kept[i].text]
  ELSE << >>

\* Array.isArray(p) ? p.filter(typeof string && trim() !== "") : []
FilterPatterns(req) ==
  IF req.isArray
  THEN LET kept == SelectSeq(req.entries,
                     LAMBDA e : e.isString /\ ~TrimsToEmpty(e.text))
       IN [i \in DOMAIN kept |-> kept[i].text]
  ELSE << >>

\* a request that touches neither the recorded list nor a submit
Requested(op) ==
  /\ nOps' = nOps + 1
  /\ lastOp' = op
  /\ UNCHANGED <<cachedRecordedUrls, cachedTargetPatterns, cachedSimplification,
                 badgeText, storage, eventQueue, initState, quietSinceClear,
                 seenBefore, answeredPatterns>>

\* onMessage, action "setTargetPatterns": what it does to the worker and its
\* pending storage calls
SetTargetPatternsHandler(req) ==
  /\ nOps < MaxOps
  /\ LET newTargetPatterns == FilterPatterns(req)
     IN writeQueue' =
          Append(writeQueue,
                 SetCall([targetPatterns |-> newTargetPatterns],
                         SetCallbackOf("setTargetPatterns", newTargetPatterns)))
  /\ Requested([NoOp EXCEPT !.kind = "setTargetPatterns", !.request = req])
  /\ UNCHANGED staleUrls

\* onMessage, action "setTargetPatterns"
SetTargetPatterns(req) ==
  /\ SetTargetPatternsHandler(req)
  /\ UNCHANGED <<otherVars, DEBUG_MODE>>

\* the normalization fields of the getRecordedUrls response, which the popup
\* reads (from the specification, 6: getState)
GetStateNormalization == cachedSimplification

\* onMessage, action "getRecordedUrls": answers from the caches at once
GetRecordedUrls ==
  /\ nOps < MaxOps
  /\ Requested([NoOp EXCEPT !.kind = "getRecordedUrls",
                            !.urls = cachedRecordedUrls,
                            !.patterns = cachedTargetPatterns,
                            !.simplification = GetStateNormalization])
  /\ UNCHANGED <<writeQueue, staleUrls>>
  /\ UNCHANGED <<otherVars, DEBUG_MODE>>

\* onMessage, action "clearRecordedUrls"
ClearRecordedUrlsHandler ==
  /\ nOps < MaxOps
  /\ writeQueue' = Append(writeQueue,
                          SetCall([recordedUrls |-> << >>],
                                  SetCallbackOf("clearRecordedUrls", << >>)))
  /\ Requested([NoOp EXCEPT !.kind = "clearRecordedUrls"])
  /\ staleUrls' = staleUrls \cup Range(cachedRecordedUrls)
                    \cup Range(ValueOr(storage, "recordedUrls", << >>))

ClearRecordedUrls ==
  /\ ClearRecordedUrlsHandler
  /\ UNCHANGED <<otherVars, DEBUG_MODE>>

\* onMessage, action "setSimplificationSettings" (handler not in the source
\* tree; from the specification, 4.5: both fields are replaced together)
SimplificationRequests ==
  { [enabled |-> FALSE, params |-> << >>],
    [enabled |-> TRUE, params |-> << <<"x">> >>] }

\* the callback of the set call of a setSimplificationSettings request
SimplificationCallbackOf(req) ==
  [SetCallbackOf("setSimplificationSettings", << >>) EXCEPT !.settings = req]

\* faulty variant: the flag and the parameter list are written by two set
\* calls, one after the other
SetSimplificationSettingsSplit(req) ==
  /\ nOps < MaxOps
  /\ writeQueue' =
       writeQueue \o
         <<SetCall([isUrlSimplificationEnabled |-> req.enabled], NoCallback),
           SetCall([ignoredUrlParams |-> req.params],
                   SimplificationCallbackOf(req))>>
  /\ Requested([NoOp EXCEPT !.kind = "setSimplificationSettings"])
  /\ UNCHANGED staleUrls
  /\ UNCHANGED <<otherVars, DEBUG_MODE>>

SetSimplificationSettings(req) ==
  /\ nOps < MaxOps
  /\ writeQueue' =
       Append(writeQueue,
              SetCall([isUrlSimplificationEnabled |-> req.enabled,
                       ignoredUrlParams |-> req.params],
                      SimplificationCallbackOf(req)))
  /\ Requested([NoOp EXCEPT !.kind = "setSimplificationSettings"])
  /\ UNCHANGED staleUrls
  /\ UNCHANGED <<otherVars, DEBUG_MODE>>

\* ------------------------------------------------------- chrome.storage.local
\* the keys of a set call whose value differs from the stored one
ChangedKeys(items) ==
  {k \in DOMAIN items : k \notin DOMAIN storage \/ storage[k] # items[k]}

\* the get call of the onInstalled listener, pending like a set call
InstalledGet ==
  [items |-> NoKeys, cb |-> NoCallback,
   keys |-> {"targetPatterns", "recordedUrls", "isDebugMode"}]
IsInstalledGet(call) == "keys" \in DOMAIN call

\* chrome.storage.local applies the oldest pending set: the store takes the
\* items, onChanged is raised for the keys that changed, then the callback
\* of the call is invoked
WriteComplete ==
  /\ initState # "reading"
  /\ Len(writeQueue) > 0
  /\ ~IsInstalledGet(Head(writeQueue))
  /\ LET w == Head(writeQueue)
         changed == ChangedKeys(w.items)
         raised == IF changed = {} THEN << >>
                   ELSE <<Notification([k \in changed |->
                                          [newValue |-> w.items[k]]])>>
         called == IF w.cb = NoCallback THEN << >> ELSE <<Callback(w.cb)>>
     IN /\ storage' = [k \in DOMAIN storage \cup DOMAIN w.items |->
                         IF k \in DOMAIN w.items THEN w.items[k] ELSE storage[k]]
        /\ eventQueue' = eventQueue \o raised \o called
  /\ writeQueue' = Tail(writeQueue)
  /\ UNCHANGED <<cachedRecordedUrls, cachedTargetPatterns, cachedSimplification,
                 badgeText, initState, nOps, lastOp, quietSinceClear, staleUrls,
                 seenBefore, answeredPatterns>>
  /\ UNCHANGED <<otherVars, DEBUG_MODE>>

\* faulty variant: a change without newValue leaves the cached value
ChangedValueNoFallback(changes, key, current, fallback) ==
  IF key \in DOMAIN changes /\ "newValue" \in DOMAIN changes[key]
  THEN changes[key].newValue
  ELSE current

\* changes.key !== undefined ? changes.key.newValue || fallback : current
ChangedValue(changes, key, current, fallback) ==
  IF key \in DOMAIN changes
  THEN ValueOr(changes[key], "newValue", fallback)
  ELSE current

\* faulty variant: a change of targetPatterns is not taken into the cache
OnChangedKeepsPatterns ==
  /\ Len(eventQueue) > 0
  /\ Head(eventQueue).kind = "onChanged"
  /\ LET changes == Head(eventQueue).data
     IN /\ cachedRecordedUrls' =
             ChangedValue(changes, "recordedUrls", cachedRecordedUrls, << >>)
        /\ badgeText' =
             IF "recordedUrls" \in DOMAIN changes
             THEN updateBadgeCount(cachedRecordedUrls')
             ELSE badgeText
  /\ eventQueue' = Tail(eventQueue)
  /\ seenBefore' = Seen(cachedRecordedUrls', initState)
  /\ UNCHANGED <<cachedTargetPatterns, cachedSimplification, storage,
                 writeQueue, initState, nOps, lastOp, quietSinceClear,
                 staleUrls, answeredPatterns>>
  /\ DEBUG_MODE' =
       ChangedValue(Head(eventQueue).data, "isDebugMode", DEBUG_MODE, FALSE)
  /\ UNCHANGED otherVars

\* faulty variant: a change of targetPatterns drops the recorded URLs that no
\* pattern of the new list matches
OnChangedPrunes ==
  /\ Len(eventQueue) > 0
  /\ Head(eventQueue).kind = "onChanged"
  /\ LET changes == Head(eventQueue).data
     IN /\ cachedRecordedUrls' =
             IF "targetPatterns" \in DOMAIN changes
             THEN SelectSeq(cachedRecordedUrls,
                    LAMBDA u : matchesAnyPattern(u,
                      ValueOr(changes.targetPatterns, "newValue", << >>)))
             ELSE ChangedValue(changes, "recordedUrls", cachedRecordedUrls,
                               << >>)
        /\ badgeText' =
             IF "recordedUrls" \in DOMAIN changes
             THEN updateBadgeCount(cachedRecordedUrls')
             ELSE badgeText
        /\ cachedTargetPatterns' =
             ChangedValue(changes, "targetPatterns", cachedTargetPatterns, << >>)
        /\ cachedSimplification' =
             [enabled |->
                ChangedValue(changes, "isUrlSimplificationEnabled",
                             cachedSimplification.enabled, FALSE),
              params |->
                ChangedValue(changes, "ignoredUrlParams",
                             cachedSimplification.params, << >>)]
  /\ eventQueue' = Tail(eventQueue)
  /\ seenBefore' = Seen(cachedRecordedUrls', initState)
  /\ UNCHANGED <<storage, writeQueue, initState, nOps, lastOp, quietSinceClear,
                 staleUrls, answeredPatterns>>
  /\ DEBUG_MODE' =
       ChangedValue(Head(eventQueue).data, "isDebugMode", DEBUG_MODE, FALSE)
  /\ UNCHANGED otherVars

\* chrome.storage.onChanged listener (namespace "local")
OnChanged ==
  /\ Len(eventQueue) > 0
  /\ Head(eventQueue).kind = "onChanged"
  /\ LET changes == Head(eventQueue).data
     IN /\ cachedRecordedUrls' =
             ChangedValue(changes, "recordedUrls", cachedRecordedUrls, << >>)
        /\ badgeText' =
             IF "recordedUrls" \in DOMAIN changes
             THEN updateBadgeCount(cachedRecordedUrls')
             ELSE badgeText
        /\ cachedTargetPatterns' =
             ChangedValue(changes, "targetPatterns", cachedTargetPatterns, << >>)
        /\ cachedSimplification' =
             [enabled |->
                ChangedValue(changes, "isUrlSimplificationEnabled",
                             cachedSimplification.enabled, FALSE),
              params |->
                ChangedValue(changes, "ignoredUrlParams",
                             cachedSimplification.params, << >>)]
  /\ eventQueue' = Tail(eventQueue)
  /\ seenBefore' = Seen(cachedRecordedUrls', initState)
  /\ UNCHANGED <<storage, writeQueue, initState, nOps, lastOp, quietSinceClear,
                 staleUrls, answeredPatterns>>
  /\ DEBUG_MODE' =
       ChangedValue(Head(eventQueue).data, "isDebugMode", DEBUG_MODE, FALSE)
  /\ UNCHANGED otherVars

\* the callback of an applied set call: sendResponse({success: true, ...})
SetCallback ==
  /\ Len(eventQueue) > 0
  /\ Head(eventQueue).kind = "callback"
  /\ lastOp' = [NoOp EXCEPT !.kind = "answered:" \o Head(eventQueue).cb.kind,
                            !.patterns = Head(eventQueue).cb.patterns,
                            !.simplification = Head(eventQueue).cb.settings,
                            !.success = TRUE,
                            !.lastError =
                               ("lastError" \in DOMAIN Head(eventQueue).data)]
  /\ quietSinceClear' =
       (quietSinceClear \/ Head(eventQueue).cb.kind = "clearRecordedUrls")
  /\ answeredPatterns' =
       IF Head(eventQueue).cb.kind = "setTargetPatterns"
       THEN <<Head(eventQueue).cb.patterns>>
       ELSE answeredPatterns
  /\ eventQueue' = Tail(eventQueue)
  /\ UNCHANGED <<cachedRecordedUrls, cachedTargetPatterns, cachedSimplification,
                 badgeText, storage, writeQueue, initState, nOps, staleUrls,
                 seenBefore>>
  /\ UNCHANGED <<otherVars, DEBUG_MODE>>

\* ------------------------------------------------------------- specification
\* navigation events: main frame (0) or a sub-frame, any scheme
NavEvents ==
  {[frameId |-> 0, url |-> u] : u \in Urls \cup {UFtp}}
    \cup {[frameId |-> 1, url |-> UA1]}

Next ==
  \/ InitRead
  \/ InitDone
  \/ \E details \in NavEvents : OnBeforeNavigate(details.frameId, details.url)
  \/ \E raws \in PageScans : PageScanSent(raws)
  \/ \E req \in PatternRequests : SetTargetPatterns(req)
  \/ GetRecordedUrls
  \/ ClearRecordedUrls
  \/ \E req \in SimplificationRequests : SetSimplificationSettings(req)
  \/ WriteComplete
  \/ OnChanged
  \/ SetCallback

Spec == Init /\ [][Next]_vars

\* ------------------------------------------------- any sender of the message
\* request.urls of a foundUrlsFromContent message that is missing, is not an
\* array (with or without a length of its own) or is an empty array
MalformedUrlRequests ==
  { NotAnArray,
    [isArray |-> FALSE, entries |-> <<UA1>>],
    UrlsArray(<< >>) }

\* a foundUrlsFromContent message whose urls field the content script would
\* never send
MalformedFoundUrls(req) ==
  /\ OnFoundUrlsRequest(req)
  /\ UNCHANGED <<otherVars, DEBUG_MODE>>

NextAnySender ==
  \/ Next
  \/ \E req \in MalformedUrlRequests : MalformedFoundUrls(req)

SpecAnySender == Init /\ [][NextAnySender]_vars

\* ----------------------------------------------------------------- onInstalled
\* chrome.runtime.onInstalled fires once, when the worker is started for the
\* installation or the update: the listener issues its storage get
OnInstalled ==
  /\ installState = "none"
  /\ initState = "reading"
  /\ installState' = "reading"
  /\ writeQueue' = Append(writeQueue, InstalledGet)
  /\ UNCHANGED <<cachedRecordedUrls, cachedTargetPatterns, cachedSimplification,
                 badgeText, storage, eventQueue, initState, nOps, lastOp,
                 quietSinceClear, staleUrls, seenBefore, answeredPatterns,
                 DEBUG_MODE, storageReading, contentVars>>

\* the result of the listener's get, for its callback
InstalledResult(data) ==
  [kind |-> "installedResult", data |-> data, cb |-> NoCallback]

\* chrome.storage.local serves the listener's get: it reads the store as it
\* is when the calls issued before it have been applied
OnInstalledRead ==
  /\ initState # "reading"
  /\ Len(writeQueue) > 0
  /\ IsInstalledGet(Head(writeQueue))
  /\ writeQueue' = Tail(writeQueue)
  /\ eventQueue' = Append(eventQueue, InstalledResult(storage))
  /\ installState' = "loaded"
  /\ UNCHANGED <<cachedRecordedUrls, cachedTargetPatterns, cachedSimplification,
                 badgeText, storage, initState, nOps, lastOp, quietSinceClear,
                 staleUrls, seenBefore, answeredPatterns, DEBUG_MODE,
                 storageReading, contentVars>>

\* a set call of the listener: a default, no callback
DefaultCall(key, value) ==
  [items |-> [k \in {key} |-> value], cb |-> NoCallback,
   origin |-> "onInstalled"]

\* the set calls the callback issues for a result, in the order of its three
\* if statements
DefaultCalls(result) ==
  (IF "targetPatterns" \in DOMAIN result THEN << >>
   ELSE <<DefaultCall("targetPatterns", << >>)>>)
  \o (IF "recordedUrls" \in DOMAIN result THEN << >>
      ELSE <<DefaultCall("recordedUrls", << >>)>>)
  \o (IF "isDebugMode" \in DOMAIN result THEN << >>
      ELSE <<DefaultCall("isDebugMode", FALSE)>>)

\* the callback of the listener's get runs
OnInstalledCallback ==
  /\ Len(eventQueue) > 0
  /\ Head(eventQueue).kind = "installedResult"
  /\ eventQueue' = Tail(eventQueue)
  /\ writeQueue' = writeQueue \o DefaultCalls(Head(eventQueue).data)
  /\ installState' = "done"
  /\ UNCHANGED <<cachedRecordedUrls, cachedTargetPatterns, cachedSimplification,
                 badgeText, storage, initState, nOps, lastOp, quietSinceClear,
                 staleUrls, seenBefore, answeredPatterns, DEBUG_MODE,
                 storageReading, contentVars>>

\* stores an installation or an update can find: empty, or left by a version
\* that wrote a key only when it had a value for it
InstallStores ==
  InitialStores \cup {[targetPatterns |-> <<PatGroup, PatB>>]}

InitInstalled == InitWith(InstallStores)

NextInstalled ==
  \/ Next
  \/ OnInstalled
  \/ OnInstalledRead
  \/ OnInstalledCallback

SpecInstalled == InitInstalled /\ [][NextInstalled]_vars

\* ------------------------------------------------------------ debugging flag
\* stores left by an earlier session, with and without isDebugMode set
DebugStores ==
  InitialStores
    \cup {[k \in DOMAIN s \cup {"isDebugMode"} |->
             IF k = "isDebugMode" THEN TRUE ELSE s[k]] : s \in InitialStores}

InitDebug == InitWith(DebugStores)

\* the popup's debugging switch writes or removes isDebugMode
DebugChanges ==
  { [key |-> "isDebugMode", remove |-> FALSE, value |-> TRUE],
    [key |-> "isDebugMode", remove |-> FALSE, value |-> FALSE],
    [key |-> "isDebugMode", remove |-> TRUE, value |-> FALSE] }

\* -------------------------------------------------- another front-end writes
\* Another holder of the same chrome.storage.local area (an extension page,
\* the developer tools) sets or removes a key; onChanged is raised in the
\* worker when the stored value changes.  A removal carries no newValue.
ExternalChanges ==
  { [key |-> "recordedUrls", remove |-> FALSE, value |-> <<UA2>>],
    [key |-> "recordedUrls", remove |-> TRUE, value |-> << >>],
    [key |-> "targetPatterns", remove |-> FALSE, value |-> <<PatA>>],
    [key |-> "targetPatterns", remove |-> TRUE, value |-> << >>] }

ExternalChange(c) ==
  /\ nOps < MaxOps
  /\ initState # "reading"
  /\ storage' =
       IF c.remove
       THEN [k \in DOMAIN storage \ {c.key} |-> storage[k]]
       ELSE [k \in DOMAIN storage \cup {c.key} |->
               IF k = c.key THEN c.value ELSE storage[k]]
  /\ eventQueue' =
       IF c.remove
       THEN IF c.key \in DOMAIN storage
            THEN Append(eventQueue,
                        Notification([k \in {c.key} |->
                                        [oldValue |-> storage[k]]]))
            ELSE eventQueue
       ELSE IF c.key \in ChangedKeys([k \in {c.key} |-> c.value])
            THEN Append(eventQueue,
                        Notification([k \in {c.key} |-> [newValue |-> c.value]]))
            ELSE eventQueue
  /\ nOps' = nOps + 1
  /\ lastOp' = [NoOp EXCEPT !.kind = "external"]
  /\ UNCHANGED <<cachedRecordedUrls, cachedTargetPatterns, cachedSimplification,
                 badgeText, writeQueue, initState, quietSinceClear, staleUrls,
                 seenBefore, answeredPatterns>>
  /\ UNCHANGED <<otherVars, DEBUG_MODE>>

NextExternal ==
  \/ Next
  \/ \E c \in ExternalChanges : ExternalChange(c)

SpecExternal == Init /\ [][NextExternal]_vars

NextDebug ==
  \/ Next
  \/ \E c \in DebugChanges : ExternalChange(c)

SpecDebug == InitDebug /\ [][NextDebug]_vars

\* ------------------------------------------------------------ failing writes
\* chrome.storage.local rejects the oldest pending set (the quota is
\* exceeded): the store is unchanged, no onChanged is raised, and the
\* callback of the call is invoked with chrome.runtime.lastError set, which
\* no callback of background.js looks at
\* lastOp notes the failure and, for a set call of addUrlToStorage (the
\* calls without a response), the URL it was to record: the last of its list
WriteFail ==
  /\ initState # "reading"
  /\ Len(writeQueue) > 0
  /\ eventQueue' =
       eventQueue \o (IF Head(writeQueue).cb = NoCallback THEN << >>
                      ELSE <<FailedCallback(Head(writeQueue).cb)>>)
  /\ writeQueue' = Tail(writeQueue)
  /\ lastOp' =
       LET items == Head(writeQueue).items
       IN IF Head(writeQueue).cb = NoCallback /\ "recordedUrls" \in DOMAIN items
             /\ Len(items.recordedUrls) > 0
          THEN [NoOp EXCEPT !.kind = "writeFailed",
                            !.urls = <<items.recordedUrls[Len(items.recordedUrls)]>>,
                            !.written = <<items.recordedUrls>>]
          ELSE [NoOp EXCEPT !.kind = "writeFailed"]
  /\ UNCHANGED <<cachedRecordedUrls, cachedTargetPatterns, cachedSimplification,
                 badgeText, storage, initState, nOps, quietSinceClear,
                 staleUrls, seenBefore, answeredPatterns>>
  /\ UNCHANGED <<otherVars, DEBUG_MODE>>

NextFailing ==
  \/ Next
  \/ WriteFail

\* chrome.storage.local serves every read and every write in the end, and
\* the worker handles every result, notification and callback sent to it
Delivery ==
  /\ WF_vars(InitRead)
  /\ WF_vars(InitDone)
  /\ WF_vars(WriteComplete \/ WriteFail)
  /\ WF_vars(OnChanged)
  /\ WF_vars(SetCallback)

SpecFailing == Init /\ [][NextFailing]_vars /\ Delivery

\* ------------------------------------------------------------- stalled store
\* chrome.storage.local may take for ever over a set call: the worker handles
\* whatever is delivered to it and the read of initializeCaches is served,
\* but nothing says that a pending write is ever applied
WorkerFairness ==
  /\ WF_vars(InitRead)
  /\ WF_vars(InitDone)
  /\ WF_vars(OnChanged)
  /\ WF_vars(SetCallback)

SpecStalled == Init /\ [][Next]_vars /\ WorkerFairness

\* ------------------------------------------------- content script, debounce
\* The content script of one page on its own timeline: URLs arrive with the
\* initial extraction and with every MutationObserver callback, each followed
\* by a call of debouncedSendUrls(); time passes in steps of TimeStep; the
\* timer callback sends what was collected; the worker handles the message.
TimeStep == DEBOUNCE_DELAY \div 2

\* urls.forEach(url => urlsToProcess.add(url))
RECURSIVE AddAll(_, _)
AddAll(set, urls) ==
  IF urls = << >> THEN set
  ELSE AddAll(IF includes(set, Head(urls)) THEN set ELSE Append(set, Head(urls)),
              Tail(urls))

\* faulty variant: the pending timer is not cancelled
debouncedSendUrlsNoClear ==
  /\ timers' = timers \cup {[id |-> debounceTimer + 1, left |-> DEBOUNCE_DELAY]}
  /\ debounceTimer' = debounceTimer + 1

\* clearTimeout(debounceTimer); debounceTimer = setTimeout(..., DEBOUNCE_DELAY)
debouncedSendUrls ==
  /\ timers' = {t \in timers : t.id # debounceTimer}
                 \cup {[id |-> debounceTimer + 1, left |-> DEBOUNCE_DELAY]}
  /\ debounceTimer' = debounceTimer + 1

\* the URLs of a scan are added to urlsToProcess, then debouncedSendUrls()
Arrived(raws) ==
  /\ urlsToProcess' = AddAll(urlsToProcess, extractUrlsFromNode(raws))
  /\ debouncedSendUrls
  /\ sinceArrival' = 0
  /\ unsent' = unsent \cup Range(extractUrlsFromNode(raws))
  /\ UNCHANGED <<messages, workerVars>>

\* faulty variant: the observer adds the URLs and does not arm the timer
MutationObservedNoDebounce(raws) ==
  /\ debounceTimer > 0
  /\ debounceTimer < MaxOps
  /\ urlsToProcess' = AddAll(urlsToProcess, extractUrlsFromNode(raws))
  /\ debounceTimer' = debounceTimer + 1
  /\ sinceArrival' = 0
  /\ unsent' = unsent \cup Range(extractUrlsFromNode(raws))
  /\ UNCHANGED <<timers, messages, workerVars>>

\* the initial extraction when the content script loads
InitialExtraction(raws) ==
  /\ debounceTimer = 0
  /\ Arrived(raws)

\* the MutationObserver callback, set up after the initial extraction
MutationObserved(raws) ==
  /\ debounceTimer > 0
  /\ debounceTimer < MaxOps
  /\ Arrived(raws)

\* time passes while a timer is not yet due
TimePasses ==
  /\ \E t \in timers : t.left > 0
  /\ timers' = {[t EXCEPT !.left = IF @ > TimeStep THEN @ - TimeStep ELSE 0] :
                  t \in timers}
  /\ sinceArrival' = IF sinceArrival + TimeStep > DEBOUNCE_DELAY
                     THEN DEBOUNCE_DELAY
                     ELSE sinceArrival + TimeStep
  /\ UNCHANGED <<urlsToProcess, debounceTimer, messages, unsent, workerVars>>

\* the message of a flush
FoundUrlsMessage(urlsArray) ==
  [action |-> "foundUrlsFromContent", urls |-> urlsArray]

\* faulty variant: the set is not cleared after sending
DebounceTimerFiresNoClear ==
  \E t \in timers :
    /\ t.left = 0
    /\ timers' = timers \ {t}
    /\ IF Len(urlsToProcess) > 0
       THEN /\ messages' = Append(messages, FoundUrlsMessage(urlsToProcess))
            /\ unsent' = unsent \ Range(urlsToProcess)
            /\ UNCHANGED urlsToProcess
       ELSE UNCHANGED <<messages, urlsToProcess, unsent>>
    /\ UNCHANGED <<debounceTimer, sinceArrival, workerVars>>

\* faulty variant: the message is sent without looking at the size of the set
DebounceTimerFiresAlwaysSends ==
  \E t \in timers :
    /\ t.left = 0
    /\ timers' = timers \ {t}
    /\ messages' = Append(messages, FoundUrlsMessage(urlsToProcess))
    /\ urlsToProcess' = << >>
    /\ unsent' = unsent \ Range(urlsToProcess)
    /\ UNCHANGED <<debounceTimer, sinceArrival, workerVars>>

\* the callback given to setTimeout runs: a due timer fires
DebounceTimerFires ==
  \E t \in timers :
    /\ t.left = 0
    /\ timers' = timers \ {t}
    /\ IF Len(urlsToProcess) > 0
       THEN /\ messages' = Append(messages, FoundUrlsMessage(urlsToProcess))
            /\ urlsToProcess' = << >>
            /\ unsent' = unsent \ Range(urlsToProcess)
       ELSE UNCHANGED <<messages, urlsToProcess, unsent>>
    /\ UNCHANGED <<debounceTimer, sinceArrival, workerVars>>

\* the worker's onMessage listener receives the oldest message
OnFoundUrlsMessage ==
  /\ Len(messages) > 0
  /\ FoundUrlsFromContent(Head(messages).urls)
  /\ messages' = Tail(messages)
  /\ UNCHANGED <<urlsToProcess, debounceTimer, timers, sinceArrival, unsent,
                 DEBUG_MODE, installState, storageReading>>

NextContent ==
  \/ InitRead
  \/ InitDone
  \/ \E raws \in PageScans : InitialExtraction(raws)
  \/ \E raws \in PageScans : MutationObserved(raws)
  \/ TimePasses
  \/ DebounceTimerFires
  \/ OnFoundUrlsMessage
  \/ WriteComplete
  \/ OnChanged

\* time passes and a due timer runs
TimerFairness == WF_vars(TimePasses) /\ WF_vars(DebounceTimerFires)

SpecContent == Init /\ [][NextContent]_vars /\ TimerFairness

\* --------------------------------------- addUrlToStorage reading the store
\* The earlier background.js keeps no cache: addUrlToStorage(url) issues a
\* storage.get and decides in its callback, on the lists that were read.
\* writeQueue holds the get and set calls issued and not yet served, in the
\* order issued; eventQueue holds the results of the gets served.

\* storage.get(["targetPatterns", "recordedUrls"], callback) of
\* addUrlToStorage(url)
GetCall(url) == [items |-> NoKeys, cb |-> NoCallback, url |-> <<url>>]
IsGetCall(call) == "url" \in DOMAIN call

\* the result of that get, for the callback that holds url
UrlGetResult(data, url) ==
  [kind |-> "getResult", data |-> data, cb |-> NoCallback, url |-> <<url>>]

\* a handler that calls addUrlToStorage for each of urls
SubmittedReading(kind, urls, eligible) ==
  /\ nOps < MaxOps
  /\ writeQueue' =
       writeQueue \o (IF eligible THEN [i \in DOMAIN urls |-> GetCall(urls[i])]
                      ELSE << >>)
  /\ nOps' = nOps + 1
  /\ lastOp' = [NoOp EXCEPT !.kind = kind, !.urls = urls]
  /\ UNCHANGED <<cachedRecordedUrls, cachedTargetPatterns, cachedSimplification,
                 badgeText, storage, eventQueue, initState, quietSinceClear,
                 staleUrls, seenBefore, answeredPatterns>>
  /\ UNCHANGED <<otherVars, DEBUG_MODE>>

\* onBeforeNavigate listener of the earlier background.js
OnBeforeNavigateReading(frameId, url) ==
  SubmittedReading("navigate", <<url>>, frameId = 0 /\ StartsWithHttp(url))

\* onMessage, action "foundUrlsFromContent", of the earlier background.js
FoundUrlsFromContentReading(urls) ==
  SubmittedReading("foundUrlsFromContent", urls, Len(urls) > 0)

\* chrome.storage.local serves the oldest call: a get reads the store as it
\* is now, a set replaces the items
StorageServes ==
  /\ Len(writeQueue) > 0
  /\ LET call == Head(writeQueue)
     IN IF IsGetCall(call)
        THEN /\ eventQueue' = Append(eventQueue,
                                     UrlGetResult(storage, call.url[1]))
             /\ UNCHANGED storage
        ELSE /\ storage' = [k \in DOMAIN storage \cup DOMAIN call.items |->
                              IF k \in DOMAIN call.items THEN call.items[k]
                              ELSE storage[k]]
             /\ UNCHANGED eventQueue
  /\ writeQueue' = Tail(writeQueue)
  /\ UNCHANGED <<cachedRecordedUrls, cachedTargetPatterns, cachedSimplification,
                 badgeText, initState, nOps, lastOp, quietSinceClear,
                 staleUrls, seenBefore, answeredPatterns>>
  /\ UNCHANGED <<otherVars, DEBUG_MODE>>

\* the callback of the get of addUrlToStorage(url) runs
addUrlToStorageReading ==
  /\ Len(eventQueue) > 0
  /\ LET result == Head(eventQueue).data
         url == Head(eventQueue).url[1]
         targetPatterns == ValueOr(result, "targetPatterns", << >>)
         recordedUrls == ValueOr(result, "recordedUrls", << >>)
     IN writeQueue' =
          IF matchesAnyPattern(url, targetPatterns)
             /\ ~includes(recordedUrls, url)
          THEN Append(writeQueue,
                      SetCall([recordedUrls |-> Append(recordedUrls, url)],
                              NoCallback))
          ELSE writeQueue
  /\ eventQueue' = Tail(eventQueue)
  /\ UNCHANGED <<cachedRecordedUrls, cachedTargetPatterns, cachedSimplification,
                 badgeText, storage, initState, nOps, lastOp, quietSinceClear,
                 staleUrls, seenBefore, answeredPatterns>>
  /\ UNCHANGED <<otherVars, DEBUG_MODE>>

NextStorageRead ==
  \/ \E details \in NavEvents :
       OnBeforeNavigateReading(details.frameId, details.url)
  \/ \E urls \in Batches : FoundUrlsFromContentReading(urls)
  \/ StorageServes
  \/ addUrlToStorageReading

SpecStorageRead == Init /\ [][NextStorageRead]_vars

\* ------------------------------------- the two variants, one request at a time
\* initialization has finished and no storage read, write or notification
\* is pending
Quiescent == initState = "done" /\ writeQueue = << >> /\ eventQueue = << >>

\* The earlier background.js handles the same requests on a store of its
\* own, storageReading.  A request is taken when the reads, writes and
\* notifications of the one before it have completed, in both variants.
\* A submit is one call of addUrlToStorage: a navigation, or a
\* foundUrlsFromContent message of one URL (the forEach of a longer message
\* starts every call before the storage calls of the first have completed).
SingleUrlBatches == {<<url>> : url \in BatchUrls}

\* storage.set(items) applied to a store
StoreSet(store, items) ==
  [k \in DOMAIN store \cup DOMAIN items |->
     IF k \in DOMAIN items THEN items[k] ELSE store[k]]

\* the earlier addUrlToStorage for each of urls, to completion: the gets are
\* all issued in the handler's turn and are served before any set that a
\* callback issues, so every callback holds the same snapshot; the sets
\* are applied in the order of the callbacks
RECURSIVE ReadingSubmit(_, _, _)
ReadingSubmit(snapshot, store, urls) ==
  IF urls = << >> THEN store
  ELSE LET url == Head(urls)
           targetPatterns == ValueOr(snapshot, "targetPatterns", << >>)
           recordedUrls == ValueOr(snapshot, "recordedUrls", << >>)
       IN ReadingSubmit(snapshot,
                        IF matchesAnyPattern(url, targetPatterns)
                           /\ ~includes(recordedUrls, url)
                        THEN StoreSet(store, [recordedUrls |->
                                                Append(recordedUrls, url)])
                        ELSE store,
                        Tail(urls))

\* what both variants leave alone while a request is handled
sequentialVars == <<contentVars, installState, DEBUG_MODE>>

SequentialNavigate(frameId, url) ==
  /\ Quiescent
  /\ OnBeforeNavigateHandler(frameId, url)
  /\ storageReading' =
       IF frameId = 0 /\ StartsWithHttp(url)
       THEN ReadingSubmit(storageReading, storageReading, <<url>>)
       ELSE storageReading
  /\ UNCHANGED sequentialVars

SequentialFoundUrls(urls) ==
  /\ Quiescent
  /\ FoundUrlsFromContent(urls)
  /\ storageReading' =
       IF Len(urls) > 0
       THEN ReadingSubmit(storageReading, storageReading, urls)
       ELSE storageReading
  /\ UNCHANGED sequentialVars

SequentialSetTargetPatterns(req) ==
  /\ Quiescent
  /\ SetTargetPatternsHandler(req)
  /\ storageReading' =
       StoreSet(storageReading, [targetPatterns |-> FilterPatterns(req)])
  /\ UNCHANGED sequentialVars

SequentialClear ==
  /\ Quiescent
  /\ ClearRecordedUrlsHandler
  /\ storageReading' = StoreSet(storageReading, [recordedUrls |-> << >>])
  /\ UNCHANGED sequentialVars

NextSequential ==
  \/ InitRead
  \/ InitDone
  \/ \E details \in NavEvents :
       SequentialNavigate(details.frameId, details.url)
  \/ \E urls \in SingleUrlBatches : SequentialFoundUrls(urls)
  \/ \E req \in PatternRequests : SequentialSetTargetPatterns(req)
  \/ SequentialClear
  \/ WriteComplete
  \/ OnChanged
  \/ SetCallback

SpecSequential == Init /\ [][NextSequential]_vars

\* ==================================================================== claims
PersistedUrls == ValueOr(storage, "recordedUrls", << >>)

NoDuplicate(list) == \A i, j \in DOMAIN list : list[i] = list[j] => i = j

SubmitKinds == {"navigate", "foundUrlsFromContent"}

\* the step is the handling of one external request
RequestStep == nOps' = nOps + 1

\* C1: neither the in-memory recorded list nor the persisted recordedUrls
\* list ever holds the same URL twice.
C1_NoDuplicateRecorded ==
  NoDuplicate(cachedRecordedUrls) /\ NoDuplicate(PersistedUrls)

\* C1 witness: a URL is submitted again while the write of its first submit
\* is still pending; it is rejected and is in the cache once.
C1_Witness ==
  /\ lastOp.kind = "navigate"
  /\ lastOp.results = <<"duplicate">>
  /\ includes(cachedRecordedUrls, lastOp.urls[1])
  /\ ~includes(PersistedUrls, lastOp.urls[1])
  /\ \E i \in DOMAIN writeQueue :
       "recordedUrls" \in DOMAIN writeQueue[i].items
       /\ includes(writeQueue[i].items.recordedUrls, lastOp.urls[1])

\* C2: nothing is destroyed implicitly: a step that is not the delivery of a
\* clear (which leaves the list empty) and not the completion of
\* initialization removes no URL from the in-memory list, and no storage
\* write other than a clear removes a URL from the persisted list.
C2_NothingDestroyedImplicitly ==
  [][ /\ (initState' = initState /\ cachedRecordedUrls' # << >>)
         => Range(cachedRecordedUrls) \subseteq Range(cachedRecordedUrls')
      /\ (ValueOr(storage', "recordedUrls", << >>) # << >>)
         => Range(PersistedUrls) \subseteq
              Range(ValueOr(storage', "recordedUrls", << >>)) ]_vars

\* C3: once a clear has been answered and no submit has happened since, the
\* persisted list is empty and getRecordedUrls returns an empty list.
C3_ClearedStaysEmpty ==
  quietSinceClear =>
    /\ PersistedUrls = << >>
    /\ lastOp.kind = "getRecordedUrls" => lastOp.urls = << >>

\* C4: the list written by a submit handled after a clear request holds no
\* URL that was recorded before the clear and not accepted again since.
C4_ClearNotUndone ==
  \A i \in DOMAIN lastOp.written : Range(lastOp.written[i]) \cap staleUrls = {}

\* some pattern of the list compiles and matches url
SomeValidPatternMatches(url, patterns) ==
  \E i \in DOMAIN patterns :
    Compiles(patterns[i]) /\ RegexTest(patterns[i], url)

\* C5: a submitted URL passes matchesAnyPattern exactly when it is non-empty
\* and some syntactically valid pattern of the list matches it; an invalid
\* pattern is skipped and does not stop the patterns after it.  Matching
\* ignores case: "http://B" passes a list that holds the pattern "b".
C5_MatchesIffValidPatternMatches ==
  \A i \in DOMAIN lastOp.results :
    /\ (lastOp.results[i] # "no-pattern-match")
         <=> (lastOp.urls[i] # EmptyString
              /\ SomeValidPatternMatches(lastOp.urls[i], lastOp.patterns))
    /\ (lastOp.urls[i] = UB /\ includes(lastOp.patterns, PatB))
         => lastOp.results[i] # "no-pattern-match"

\* C5 witness: a URL was accepted through a valid pattern listed after an
\* invalid one.
C5_Witness ==
  /\ lastOp.kind = "navigate"
  /\ lastOp.results = <<"accepted">>
  /\ Len(lastOp.patterns) = 2
  /\ ~Compiles(lastOp.patterns[1])
  /\ RegexTest(lastOp.patterns[2], lastOp.urls[1])

\* the step handles a navigation or a content batch
SubmitStep == RequestStep /\ lastOp'.kind \in SubmitKinds

\* C6: a submit whose URLs match no pattern of the current pattern set (an
\* empty set included) leaves the in-memory list and the persisted list
\* unchanged and issues no storage write.
C6_NonMatchingSubmitNoEffect ==
  [][ (SubmitStep
       /\ \A i \in DOMAIN lastOp'.urls :
            ~SomeValidPatternMatches(lastOp'.urls[i], cachedTargetPatterns))
      => UNCHANGED <<cachedRecordedUrls, storage, writeQueue>> ]_vars

\* C6 witness: with patterns set, a batch of two non-matching URLs was
\* handled and rejected.
C6_Witness ==
  /\ lastOp.kind = "foundUrlsFromContent"
  /\ lastOp.patterns # << >>
  /\ lastOp.results = <<"no-pattern-match", "no-pattern-match">>
  /\ lastOp.urls[1] # EmptyString

\* C7: a submit of URLs that are all in the recorded list already changes
\* neither the in-memory list, the persisted list nor the count shown, and
\* issues no storage write.
C7_DuplicateSubmitNoEffect ==
  [][ (SubmitStep
       /\ \A i \in DOMAIN lastOp'.urls :
            includes(cachedRecordedUrls, lastOp'.urls[i]))
      => UNCHANGED <<cachedRecordedUrls, storage, writeQueue, badgeText>> ]_vars

\* C7 witness: a matching URL that is in the list was submitted again.
C7_Witness ==
  /\ lastOp.kind = "navigate"
  /\ lastOp.results = <<"duplicate">>
  /\ includes(cachedRecordedUrls, lastOp.urls[1])

\* the query parameters of url that are not ignored, and what precedes them
QueryStart(url) == FirstIndex(url, "?")
BeforeQuery(url) ==
  IF QueryStart(url) = 0 THEN url ELSE SubSeq(url, 1, QueryStart(url) - 1)
KeptParams(url, ignoredParams) ==
  IF QueryStart(url) = 0 \/ QueryStart(url) = Len(url) THEN << >>
  ELSE SelectSeq(SplitParams(SubSeq(url, QueryStart(url) + 1, Len(url))),
                 LAMBDA prm : ParamKey(prm) \notin Range(ignoredParams))

\* two absolute URLs are equal up to their ignored query parameters
SameUpToIgnored(u, v, ignoredParams) ==
  /\ ParsesAsUrl(u) /\ ParsesAsUrl(v)
  /\ BeforeQuery(u) = BeforeQuery(v)
  /\ KeptParams(u, ignoredParams) = KeptParams(v, ignoredParams)

\* url counts as recorded under the normalization configuration in force
CountsAsRecorded(url) ==
  \/ includes(cachedRecordedUrls, url)
  \/ /\ cachedSimplification.enabled
     /\ Len(cachedSimplification.params) > 0
     /\ \E i \in DOMAIN cachedRecordedUrls :
          SameUpToIgnored(cachedRecordedUrls[i], url, cachedSimplification.params)

\* the step handles the submit of the single URL url
SingleSubmit(url) ==
  /\ SubmitStep
  /\ lastOp'.urls = <<url>>
  /\ lastOp'.kind = "navigate" => StartsWithHttp(url)
  /\ Len(lastOp'.results) = 1

\* C8: when a submitted URL matches a current pattern and is not recorded,
\* the new in-memory list is the old list followed by the submitted string
\* verbatim, and a storage write of exactly that list is issued; with
\* normalization disabled two URLs that differ only in a query parameter
\* value are both accepted.
C8_AcceptAppendsVerbatim ==
  [][ \A url \in Urls \cup BatchUrls :
        (SingleSubmit(url)
         /\ url # EmptyString
         /\ SomeValidPatternMatches(url, cachedTargetPatterns)
         /\ ~CountsAsRecorded(url))
        => /\ cachedRecordedUrls' = cachedRecordedUrls \o <<url>>
           /\ writeQueue' =
                writeQueue \o
                  <<SetCall([recordedUrls |-> cachedRecordedUrls \o <<url>>],
                            NoCallback)>> ]_vars

\* C8 witness: with normalization never enabled, UA2 was accepted after UA1,
\* from which it differs only in the value of x.
C8_Witness ==
  /\ "isUrlSimplificationEnabled" \notin DOMAIN storage
  /\ ~cachedSimplification.enabled
  /\ lastOp.results = <<"accepted">>
  /\ lastOp.urls = <<UA2>>
  /\ Len(cachedRecordedUrls) >= 2
  /\ cachedRecordedUrls[Len(cachedRecordedUrls)] = UA2
  /\ includes(cachedRecordedUrls, UA1)
  /\ writeQueue # << >>
  /\ writeQueue[Len(writeQueue)].items = [recordedUrls |-> cachedRecordedUrls]

\* C9: the relative order of two recorded URLs is the same in every read:
\* no two URLs have been listed in both orders since the list was last
\* empty.
C9_OrderStable ==
  \A pair \in seenBefore : <<pair[2], pair[1]>> \notin seenBefore

SimplificationPending ==
  \/ \E i \in DOMAIN writeQueue :
       writeQueue[i].cb.kind = "setSimplificationSettings"
  \/ \E i \in DOMAIN eventQueue :
       eventQueue[i].cb.kind = "setSimplificationSettings"

KeptEntries(req) ==
  IF req.isArray
  THEN {j \in DOMAIN req.entries :
          req.entries[j].isString /\ ~TrimsToEmpty(req.entries[j].text)}
  ELSE {}

\* out is the requested entries at the positions of KeptEntries, in the
\* order of the request
IsKeptSubsequence(out, req) ==
  /\ Len(out) = Cardinality(KeptEntries(req))
  /\ \A i \in DOMAIN out :
       \E j \in KeptEntries(req) :
         /\ Cardinality({k \in KeptEntries(req) : k < j}) = i - 1
         /\ out[i] = req.entries[j].text

\* C12: the set call a setTargetPatterns request issues stores, and its
\* callback returns, exactly the requested entries that are strings and not
\* blank, in their order (none when patterns is not an array); an entry
\* that is no valid regular expression is kept.
C12_SetTargetPatternsFilters ==
  [][ (RequestStep /\ lastOp'.kind = "setTargetPatterns")
      => /\ Len(writeQueue') = Len(writeQueue) + 1
         /\ LET call == writeQueue'[Len(writeQueue')]
            IN /\ DOMAIN call.items = {"targetPatterns"}
               /\ IsKeptSubsequence(call.items.targetPatterns, lastOp'.request)
               /\ call.cb.kind = "setTargetPatterns"
               /\ call.cb.patterns = call.items.targetPatterns ]_vars

\* C12 witness: the request ["(b", "  ", "a"] was answered with ["(b", "a"],
\* which is what storage holds.
C12_Witness ==
  /\ lastOp.kind = "answered:setTargetPatterns"
  /\ lastOp.patterns = <<PatBad, PatA>>
  /\ ValueOr(storage, "targetPatterns", << >>) = <<PatBad, PatA>>

\* the pattern lists of the setTargetPatterns requests handled and not yet
\* answered
PendingPatterns ==
  {writeQueue[i].cb.patterns :
     i \in {j \in DOMAIN writeQueue : writeQueue[j].cb.kind = "setTargetPatterns"}}
    \cup {eventQueue[i].cb.patterns :
            i \in {j \in DOMAIN eventQueue :
                     eventQueue[j].cb.kind = "setTargetPatterns"}}

\* C13: a submit handled after a setTargetPatterns request was answered is
\* matched against the pattern list of the last answered request (or of a
\* request made since and not yet answered), never against an older list.
C13_NoStalePatterns ==
  [][ (SubmitStep /\ answeredPatterns # << >>)
      => (lastOp'.patterns = answeredPatterns[1]
          \/ lastOp'.patterns \in PendingPatterns) ]_vars

\* C13 witness: after the request for ["(b", "a"] was answered, with no other
\* request pending, a navigation was matched against that list, which
\* differs from the list loaded at start.
C13_Witness ==
  /\ lastOp.kind = "navigate"
  /\ answeredPatterns = << <<PatBad, PatA>> >>
  /\ lastOp.patterns = <<PatBad, PatA>>
  /\ PendingPatterns = {}
  /\ lastOp.results = <<"accepted">>

\* the step is the onChanged listener handling the oldest event
OnChangedStep ==
  /\ Len(eventQueue) > 0
  /\ Head(eventQueue).kind = "onChanged"
  /\ eventQueue' = Tail(eventQueue)

\* what a cache holds after the listener handled changes: newValue of a
\* key that is named, the empty list when it carries no newValue, the old
\* cache when the key is not named
Resynced(changes, key, old) ==
  IF key \notin DOMAIN changes THEN old
  ELSE IF "newValue" \in DOMAIN changes[key] THEN changes[key].newValue
  ELSE << >>

\* C14: after the onChanged listener handles a notification, whoever made
\* the change, each of the two caches equals newValue of its key, or the
\* empty list when newValue is absent, and a cache whose key is not named
\* keeps its value.
C14_ResyncOnChange ==
  [][ OnChangedStep
      => /\ cachedRecordedUrls' =
              Resynced(Head(eventQueue).data, "recordedUrls", cachedRecordedUrls)
         /\ cachedTargetPatterns' =
              Resynced(Head(eventQueue).data, "targetPatterns",
                       cachedTargetPatterns) ]_vars

\* C14 witness: another front-end removed the recordedUrls key, which held
\* a URL; the notification has been handled and the recorded cache is
\* empty while the patterns are kept.
C14_Witness ==
  /\ lastOp.kind = "external"
  /\ "targetPatterns" \in DOMAIN storage
  /\ "recordedUrls" \notin DOMAIN storage
  /\ eventQueue = << >>
  /\ initState = "done"
  /\ cachedRecordedUrls = << >>
  /\ cachedTargetPatterns = <<PatGroup, PatB>>

\* C15: in every quiescent state the in-memory recorded list equals the
\* persisted recordedUrls list and the in-memory pattern list equals the
\* persisted targetPatterns list.
C15_QuiescentConsistency ==
  Quiescent =>
    /\ cachedRecordedUrls = PersistedUrls
    /\ cachedTargetPatterns = ValueOr(storage, "targetPatterns", << >>)

\* C15 witness: quiescent after a submit was accepted and new patterns were
\* set, with both caches different from what was loaded at start.
C15_Witness ==
  /\ Quiescent
  /\ nOps = MaxOps
  /\ Len(cachedRecordedUrls) >= 2
  /\ answeredPatterns # << >>
  /\ cachedTargetPatterns = answeredPatterns[1]
  /\ cachedTargetPatterns # <<PatGroup, PatB>>

AcceptStep == SubmitStep /\ \E i \in DOMAIN lastOp'.results :
                             lastOp'.results[i] = "accepted"

\* C17 as stated: in the state right after a submit appended a URL the
\* badge text equals the length of the in-memory list.
C17_BadgeOnAcceptance ==
  [][ AcceptStep => badgeText' = <<Len(cachedRecordedUrls')>> ]_vars

\* C17 amended: a submit that appends a URL leaves the badge as it was; the
\* badge equals the length of the in-memory list in the state right after
\* the onChanged listener handled a recordedUrls notification.
C17_BadgeOnNotification ==
  [][ /\ AcceptStep => badgeText' = badgeText
      /\ (OnChangedStep /\ "recordedUrls" \in DOMAIN Head(eventQueue).data)
         => badgeText' = <<Len(cachedRecordedUrls')>> ]_vars

\* C17 witness: the notification of an accepted submit's write has been
\* handled; the badge shows the two URLs of the list.
C17_Witness ==
  /\ Quiescent
  /\ lastOp.kind = "navigate"
  /\ lastOp.results = <<"accepted">>
  /\ cachedRecordedUrls = <<UB, lastOp.urls[1]>>
  /\ badgeText = <<2>>

\* C18: the badge text eventually equals the number of URLs in the
\* in-memory recorded list and stays equal, also when a storage write fails:
\* once initialization is done and every write, notification and callback
\* has been delivered, so that nothing can change the badge any more, the
\* badge text equals the length of the in-memory list.
C18_BadgeEventuallyConsistent ==
  Quiescent => badgeText = <<Len(cachedRecordedUrls)>>

\* url counts as recorded in list under the normalization configuration
DuplicateIn(list, url) ==
  \/ includes(list, url)
  \/ /\ cachedSimplification.enabled
     /\ Len(cachedSimplification.params) > 0
     /\ \E i \in DOMAIN list :
          SameUpToIgnored(list[i], url, cachedSimplification.params)

\* the positions of a batch whose element was accepted
AcceptedAt(results) == {j \in DOMAIN results : results[j] = "accepted"}

\* the step handles a foundUrlsFromContent batch
BatchStep == RequestStep /\ lastOp'.kind = "foundUrlsFromContent"

\* C19: every element of a foundUrlsFromContent batch is processed, whatever
\* happened to the elements before it: it is accepted exactly when a valid
\* pattern matches it and it is a duplicate neither of the list nor of an
\* element of the batch accepted before it; the new list is the old list
\* followed by the accepted elements in array order.
C19_BatchInOrderIndependently ==
  [][ BatchStep
      => LET urls == lastOp'.urls
             results == lastOp'.results
             added == SubSeq(cachedRecordedUrls', Len(cachedRecordedUrls) + 1,
                             Len(cachedRecordedUrls'))
         IN /\ Len(results) = Len(urls)
            /\ \A i \in DOMAIN urls :
                 (results[i] = "accepted")
                   <=> /\ SomeValidPatternMatches(urls[i], cachedTargetPatterns)
                       /\ ~DuplicateIn(cachedRecordedUrls, urls[i])
                       /\ \A k \in AcceptedAt(results) :
                            k < i => ~DuplicateIn(<<urls[k]>>, urls[i])
            /\ SubSeq(cachedRecordedUrls', 1, Len(cachedRecordedUrls))
                 = cachedRecordedUrls
            /\ Len(added) = Cardinality(AcceptedAt(results))
            /\ \A i \in DOMAIN added :
                 \E j \in AcceptedAt(results) :
                   /\ Cardinality({k \in AcceptedAt(results) : k < j}) = i - 1
                   /\ added[i] = urls[j] ]_vars

\* C19 witness: of the page's strings the invalid one was dropped by the
\* content script, and of the batch [http://B, https://a?x=2] sent the first
\* element matched no pattern and the second was recorded.
C19_Witness ==
  /\ lastOp.kind = "foundUrlsFromContent"
  /\ lastOp.urls = <<UB, UA2>>
  /\ lastOp.results = <<"no-pattern-match", "accepted">>
  /\ cachedRecordedUrls # << >>
  /\ cachedRecordedUrls[Len(cachedRecordedUrls)] = UA2

\* url is an absolute URL: a scheme followed by a host
IsAbsoluteUrl(url) ==
  /\ Len(url) >= 2
  /\ url[1] \in UrlSchemes
  /\ url[2] # " "

\* C20: a string of the page that does not resolve to an absolute URL against
\* the base URI is never recorded: every element of the recorded list, in the
\* cache and in the store, is an absolute URL.
C20_OnlyAbsoluteUrlsRecorded ==
  /\ \A i \in DOMAIN cachedRecordedUrls : IsAbsoluteUrl(cachedRecordedUrls[i])
  /\ \A i \in DOMAIN PersistedUrls : IsAbsoluteUrl(PersistedUrls[i])
  /\ ~includes(cachedRecordedUrls, RawBad)
  /\ ~includes(PersistedUrls, RawBad)

\* C20 witness: the scan that met the unresolvable string sent the batch
\* [http://B, https://a?x=2]; the relative reference was recorded resolved and
\* the unresolvable string was not.
C20_Witness ==
  /\ lastOp.kind = "foundUrlsFromContent"
  /\ lastOp.urls = <<UB, UA2>>
  /\ includes(cachedRecordedUrls, StripQuery(BaseUri) \o RawQuery2)
  /\ includes(PersistedUrls, UA2)
  /\ ~includes(PersistedUrls, RawBad)

\* the step sends a foundUrlsFromContent message
MessageSent == Len(messages') = Len(messages) + 1

\* the step calls debouncedSendUrls()
DebounceCalled == debounceTimer' # debounceTimer

\* the URLs of the message sent last
LastSentUrls(queue) == queue[Len(queue)].urls

\* C21: at most one flush timer is pending; a call of debouncedSendUrls
\* leaves exactly the timer it started, with a full window ahead; a message
\* is sent only when a full window has passed since the last call, and it
\* holds every URL that arrived since the previous message.
C21_DebounceCoalesces ==
  [][ /\ Cardinality(timers') <= 1
      /\ DebounceCalled
           => timers' = {[id |-> debounceTimer', left |-> DEBOUNCE_DELAY]}
      /\ MessageSent
           => /\ sinceArrival = DEBOUNCE_DELAY
              /\ Range(LastSentUrls(messages')) = unsent ]_vars

\* C21 witness: two scans arrived inside one window (the initial extraction
\* and one mutation) and their URLs left in one message of three URLs, more
\* than any single scan yields.
C21_Witness ==
  /\ debounceTimer = 2
  /\ timers = {}
  /\ Len(messages) = 1
  /\ Len(messages[1].urls) = 3
  /\ urlsToProcess = << >>

\* C22: a flush sends the URLs accumulated since the previous flush in one
\* message, each once, and leaves the set empty and no timer pending; a
\* message once sent is not changed by what arrives later.
C22_FlushDrains ==
  [][ /\ MessageSent
           => /\ NoDuplicate(LastSentUrls(messages'))
              /\ Range(LastSentUrls(messages')) = unsent
              /\ unsent' = {}
              /\ urlsToProcess' = << >>
              /\ timers' = {}
      /\ (timers' # timers /\ timers' = {}) => urlsToProcess' = << >>
      /\ Len(messages') >= Len(messages)
           => SubSeq(messages', 1, Len(messages)) = messages ]_vars

\* C22 witness: the first flush sent [https://a?x=1, https://a?x=2]; a scan
\* that arrived after it is collected for the next message and is not in
\* the one sent.
C22_Witness ==
  /\ Len(messages) = 1
  /\ messages[1].urls = <<UA1, UA2>>
  /\ urlsToProcess = <<UB, UA2>>
  /\ unsent = {UB, UA2}
  /\ Cardinality(timers) = 1

\* C23: once URLs stop arriving, every URL added to urlsToProcess is sent in
\* a foundUrlsFromContent message in the end (time passes and due timers
\* run).
C23_EventuallySent ==
  \A u \in BatchUrls : (u \in unsent) ~> (u \notin unsent)

\* C23 witness: the last scan allowed has arrived and everything collected,
\* the initial extraction's URLs and a later mutation's, has been sent.
C23_Witness ==
  /\ debounceTimer >= 2
  /\ timers = {}
  /\ unsent = {}
  /\ urlsToProcess = << >>
  /\ \E i \in DOMAIN messages : includes(messages[i].urls, UB)
  /\ nOps >= 1

\* the step is the failure of the storage write that was to record a URL
AcceptingWriteFails ==
  /\ lastOp'.kind = "writeFailed"
  /\ writeQueue' # writeQueue
  /\ lastOp'.urls # << >>

\* C24: when the storage write of an accepted URL fails the in-memory list
\* is duplicate-free and holds the URL exactly once; a submit of the same
\* URL that follows (the URL still matches, and no clear was requested since
\* it was accepted) is rejected as a duplicate.
C24_FailureKeepsMemoryView ==
  [][ /\ AcceptingWriteFails
           => /\ NoDuplicate(cachedRecordedUrls')
              /\ Cardinality({i \in DOMAIN cachedRecordedUrls' :
                                cachedRecordedUrls'[i] = lastOp'.urls[1]}) = 1
      /\ ( /\ lastOp.kind = "writeFailed"
           /\ lastOp.urls # << >>
           /\ lastOp.urls[1] \notin staleUrls
           /\ SomeValidPatternMatches(lastOp.urls[1], cachedTargetPatterns)
           /\ RequestStep
           /\ lastOp'.kind \in SubmitKinds )
           => \A i \in DOMAIN lastOp'.results :
                lastOp'.urls[i] = lastOp.urls[1]
                  => lastOp'.results[i] = "duplicate" ]_vars

\* C25: setTargetPatterns and clearRecordedUrls are answered with success
\* only when their storage write succeeded.
C25_FailureSurfaced ==
  ( /\ lastOp.kind \in {"answered:setTargetPatterns",
                         "answered:clearRecordedUrls"}
    /\ lastOp.success )
    => ~lastOp.lastError

\* the requests answered from the callback of their storage write
AnsweredByCallback == {"setTargetPatterns", "clearRecordedUrls"}

\* a request has been received and its sender has no response yet
\* (getRecordedUrls and foundUrlsFromContent are answered inside the handler)
AwaitingResponse ==
  \/ \E i \in DOMAIN writeQueue : writeQueue[i].cb.kind \in AnsweredByCallback
  \/ \E i \in DOMAIN eventQueue :
       /\ eventQueue[i].kind = "callback"
       /\ eventQueue[i].cb.kind \in AnsweredByCallback

\* C26: every request is answered in the end, also when the storage write it
\* triggered never completes.
C26_EveryRequestAnswered == AwaitingResponse ~> ~AwaitingResponse

\* matchesAnyPattern returned true for element i of the submit op
Matched(op, i) == op.results[i] # "no-pattern-match"

ListsInFlight ==
  {writeQueue[i].items.recordedUrls :
     i \in {j \in DOMAIN writeQueue :
              "recordedUrls" \in DOMAIN writeQueue[j].items}}
    \cup {eventQueue[i].data.recordedUrls :
            i \in {j \in DOMAIN eventQueue :
                     /\ eventQueue[j].kind = "getResult"
                     /\ "recordedUrls" \in DOMAIN eventQueue[j].data}}
    \cup {eventQueue[i].data.recordedUrls.newValue :
            i \in {j \in DOMAIN eventQueue :
                     /\ eventQueue[j].kind = "onChanged"
                     /\ "recordedUrls" \in DOMAIN eventQueue[j].data
                     /\ "newValue" \in DOMAIN eventQueue[j].data.recordedUrls}}

\* every URL of a recorded list: in the cache, in the store or in flight
KnownUrls ==
  Range(cachedRecordedUrls) \cup Range(PersistedUrls)
    \cup UNION {Range(list) : list \in ListsInFlight}

\* C29: no URL enters the recorded list without passing matchesAnyPattern: a
\* URL that no recorded list held before a step was accepted by a submit of
\* that step, and a valid pattern of the in-memory pattern list of that
\* moment matches it.
C29_OnlyMatchedUrlsEnter ==
  [][ \A u \in KnownUrls' \ KnownUrls :
        /\ SubmitStep
        /\ SomeValidPatternMatches(u, cachedTargetPatterns)
        /\ \E i \in DOMAIN lastOp'.results :
             lastOp'.urls[i] = u /\ lastOp'.results[i] = "accepted" ]_vars

\* C29 witness: http://B entered the list through the in-memory patterns
\* [b, (b] of the moment (one valid, one invalid), before the store had them.
C29_Witness ==
  /\ lastOp.kind = "navigate"
  /\ lastOp.urls = <<UB>>
  /\ lastOp.results = <<"accepted">>
  /\ lastOp.patterns = <<PatB, PatBad>>
  /\ includes(cachedRecordedUrls, UB)
  /\ ~includes(PersistedUrls, UB)

\* C30: a submit handled before initializeCaches has finished records every
\* URL it was given that a persisted pattern matches: after the handler the
\* URL is in the in-memory list, in the store or in a write on its way.
C30_NoDropDuringStartup ==
  [][ (SubmitStep /\ initState # "done")
      => \A i \in DOMAIN lastOp'.results :
           SomeValidPatternMatches(lastOp'.urls[i],
                                   ValueOr(storage, "targetPatterns", << >>))
             => lastOp'.urls[i] \in KnownUrls' ]_vars

\* how often url is in list
Occurrences(list, url) == Cardinality({i \in DOMAIN list : list[i] = url})

\* C28: in the background.js that reads the store on every submit, once all
\* the reads and writes of a foundUrlsFromContent batch (and of what was
\* submitted before it) have completed, every URL of the batch that a
\* persisted pattern matches is in the persisted list exactly once.
C28_StoreMutationsSerialized ==
  ( /\ lastOp.kind = "foundUrlsFromContent"
    /\ writeQueue = << >>
    /\ eventQueue = << >> )
    => \A i \in DOMAIN lastOp.urls :
         SomeValidPatternMatches(lastOp.urls[i],
                                 ValueOr(storage, "targetPatterns", << >>))
           => Occurrences(PersistedUrls, lastOp.urls[i]) = 1

\* C31: a navigation event reaches addUrlToStorage exactly when it is for
\* the main frame (frameId 0) and its URL starts with http:// or https://;
\* any other navigation leaves the recorded list, the store and the pending
\* writes as they were.
C31_OnlyMainFrameHttpNavigations ==
  [][ (RequestStep /\ lastOp'.kind = "navigate")
      => IF lastOp'.frameId = 0 /\ StartsWithHttp(lastOp'.urls[1])
         THEN Len(lastOp'.results) = 1
         ELSE /\ lastOp'.results = << >>
              /\ UNCHANGED <<cachedRecordedUrls, storage, writeQueue,
                             badgeText>> ]_vars

\* C31 witness: a sub-frame navigated to a URL that matches a current pattern
\* and is not recorded; it was not submitted and is still not recorded.
C31_Witness ==
  /\ initState = "done"
  /\ lastOp.kind = "navigate"
  /\ lastOp.frameId = 1
  /\ lastOp.results = << >>
  /\ SomeValidPatternMatches(lastOp.urls[1], cachedTargetPatterns)
  /\ ~includes(cachedRecordedUrls, lastOp.urls[1])
  /\ ~includes(PersistedUrls, lastOp.urls[1])
  /\ writeQueue = << >>

PersistedPatterns == ValueOr(storage, "targetPatterns", << >>)

\* the oldest pending set call, issued by the handler of a request of the
\* given kind, is applied to the store in this step
WriteOfApplied(kind) ==
  /\ Len(writeQueue) > 0
  /\ writeQueue' = Tail(writeQueue)
  /\ Head(writeQueue).cb.kind = kind

\* the onChanged listener handles in this step a change of exactly this key
ChangeOfHandled(key) ==
  /\ Len(eventQueue) > 0
  /\ eventQueue' = Tail(eventQueue)
  /\ Head(eventQueue).kind = "onChanged"
  /\ DOMAIN Head(eventQueue).data = {key}

\* C32: setTargetPatterns never changes the recorded list, in memory or in
\* the store (recorded URLs that the new patterns do not match stay), and
\* clearRecordedUrls never changes the pattern list, in memory or in the
\* store: neither the handler, nor its storage write, nor the change
\* notification of that write does.
C32_PatternsAndRecordsIndependent ==
  [][ /\ ( \/ RequestStep /\ lastOp'.kind = "setTargetPatterns"
           \/ WriteOfApplied("setTargetPatterns")
           \/ ChangeOfHandled("targetPatterns") )
         => /\ cachedRecordedUrls' = cachedRecordedUrls
            /\ ("recordedUrls" \in DOMAIN storage')
                 = ("recordedUrls" \in DOMAIN storage)
            /\ PersistedUrls' = PersistedUrls
      /\ ( \/ RequestStep /\ lastOp'.kind = "clearRecordedUrls"
           \/ WriteOfApplied("clearRecordedUrls")
           \/ ChangeOfHandled("recordedUrls") )
         => /\ cachedTargetPatterns' = cachedTargetPatterns
            /\ ("targetPatterns" \in DOMAIN storage')
                 = ("targetPatterns" \in DOMAIN storage)
            /\ PersistedPatterns' = PersistedPatterns ]_vars

\* C32 witness: setTargetPatterns was answered and its change notification
\* handled; a URL recorded under the old patterns, which no pattern of the
\* new list matches, is still in the in-memory list and in the store.
C32_Witness ==
  /\ lastOp.kind = "answered:setTargetPatterns"
  /\ eventQueue = << >>
  /\ writeQueue = << >>
  /\ cachedTargetPatterns = lastOp.patterns
  /\ PersistedPatterns = lastOp.patterns
  /\ \E i \in DOMAIN cachedRecordedUrls :
       /\ ~matchesAnyPattern(cachedRecordedUrls[i], cachedTargetPatterns)
       /\ includes(PersistedUrls, cachedRecordedUrls[i])

\* the callback of a timer ran in this step
TimerFired == timers' # timers /\ timers' \subseteq timers

\* C34: between the handlers of the content script, a non-empty
\* urlsToProcess has a debounce timer pending; a timer that fires while the
\* set is empty sends no message.
C34_NonEmptySetHasTimer ==
  [][ /\ urlsToProcess # << >> => timers # {}
      /\ urlsToProcess' # << >> => timers' # {}
      /\ (TimerFired /\ urlsToProcess = << >>) => messages' = messages ]_vars

\* C34 witness: the initial extraction found no URL, its timer fired on the
\* empty set and nothing was sent.
C34_Witness ==
  /\ debounceTimer = 1
  /\ timers = {}
  /\ urlsToProcess = << >>
  /\ unsent = {}
  /\ messages = << >>
  /\ nOps = 0

\* the longest pattern list compared
MaxPatterns == 3

\* the pattern lists of at most MaxPatterns entries
PatternLists ==
  UNION {[1..n -> {PatA, PatB, PatBad, PatGroup}] : n \in 0..MaxPatterns}

\* C36: the result of matchesAnyPattern depends on the set of patterns only:
\* any list with the same entries, in another order or with entries
\* repeated, gives for every submitted URL the result the call gave.
C36_MatchDependsOnPatternSet ==
  lastOp.kind \in SubmitKinds
    => \A i \in DOMAIN lastOp.results :
         \A qs \in PatternLists :
           Range(qs) = Range(lastOp.patterns)
             => (matchesAnyPattern(lastOp.urls[i], qs) <=> Matched(lastOp, i))

\* C36 witness: a URL was matched under a list of several patterns whose
\* first pattern does not match it.
C36_Witness ==
  /\ lastOp.kind \in SubmitKinds
  /\ Len(lastOp.patterns) >= 2
  /\ \E i \in DOMAIN lastOp.results :
       /\ Matched(lastOp, i)
       /\ ~matchesAnyPattern(lastOp.urls[i], <<lastOp.patterns[1]>>)

\* request.urls is missing, is not an array or is an empty array
Malformed(req) == ~req.isArray \/ req.entries = << >>

\* C37: a foundUrlsFromContent request whose urls field is missing, is not
\* an array or is an empty array is answered {success: true} and leaves the
\* recorded list, the store, the pending writes and the badge unchanged.
C37_MalformedBatchIgnored ==
  [][ ( /\ RequestStep
        /\ lastOp'.kind = "foundUrlsFromContent"
        /\ Malformed(lastOp'.request) )
      => /\ lastOp'.success
         /\ lastOp'.results = << >>
         /\ UNCHANGED <<cachedRecordedUrls, storage, writeQueue,
                        badgeText>> ]_vars

\* C37 witness: the urls field was not an array but had one entry, which a
\* current pattern matches and which is not recorded; the request was
\* answered and nothing was recorded.
C37_Witness ==
  /\ initState = "done"
  /\ lastOp.kind = "foundUrlsFromContent"
  /\ lastOp.success
  /\ ~lastOp.request.isArray
  /\ \E i \in DOMAIN lastOp.request.entries :
       /\ matchesAnyPattern(lastOp.request.entries[i], cachedTargetPatterns)
       /\ ~includes(cachedRecordedUrls, lastOp.request.entries[i])
  /\ writeQueue = << >>

\* a store, or what was read from it, without the debugging flag
LowOf(items) == [k \in DOMAIN items \ {"isDebugMode"} |-> items[k]]

LowStore == LowOf(storage)

\* what the handler of the submit of this step does to the recorded list,
\* computed from the request, the in-memory lists and nothing else
SubmitOutcome ==
  LET op == lastOp'
  IN IF op.kind = "navigate"
     THEN IF op.frameId = 0 /\ StartsWithHttp(op.urls[1])
          THEN addUrlToStorage(Fresh, op.urls[1], cachedTargetPatterns,
                               cachedSimplification)
          ELSE Fresh
     ELSE IF op.request.isArray /\ Len(op.request.entries) > 0
          THEN forEachUrl(Fresh, op.request.entries, 1, cachedTargetPatterns,
                          cachedSimplification)
          ELSE Fresh

DefaultOf(key) == IF key = "isDebugMode" THEN FALSE ELSE << >>

\* a set call of the onInstalled listener is applied in this step
DefaultApplied ==
  /\ Len(writeQueue) > 0
  /\ writeQueue' = Tail(writeQueue)
  /\ "origin" \in DOMAIN Head(writeQueue)

\* C35: the onInstalled listener writes a default only for a key that is
\* absent: whatever requests are handled around it, a default it writes
\* never replaces a stored value other than the default.
C35_DefaultsOnlyWhenAbsent ==
  [][ DefaultApplied
      => \A k \in DOMAIN Head(writeQueue).items :
           k \in DOMAIN storage => storage[k] = DefaultOf(k) ]_vars

====
